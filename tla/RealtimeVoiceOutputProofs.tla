----------------------- MODULE RealtimeVoiceOutputProofs -----------------------
(***************************************************************************)
(* Who owns a work of voice synthesis, and what cancel and flush promise   *)
(* about it, for every number of workers, controllers, works and contexts. *)
(***************************************************************************)
EXTENDS RealtimeVoiceOutput, SequenceTheorems, FiniteSetTheorems, TLAPS

Owner ==
    INSTANCE BackpressureRuntimeProofs
      WITH Item <- Work, MaxPending <- MaxDepth, MaxInFlight <- 1, runtime <- boundary

-----------------------------------------------------------------------------
(* The inductive invariant.                                                 *)

(* A work whose end nobody can take back: not queued, and not on the stage.   *)
Over(w) == w \in 1 .. Newest /\ ~Pending(w) /\ stage.active # w

(* A work nobody will hear: what is left of it is cancelled before it is      *)
(* published. The claim that was given back is the exception.                *)
Silenced(w) ==
    \/ w \in orphaned
    \/ w \in 1 .. Newest /\ ~Pending(w) /\ (stage.active = w => stage.cancelling = w)

(* The queue and its boundary hold the same works, once, in the same order.   *)
QueueIsOwned ==
    /\ Owner!Sound(boundary) /\ boundary.pending = pending
    /\ \A i \in DOMAIN pending : pending[i] \in 1 .. Newest

(* What a worker has of the work it is at; only a claim under the queue's     *)
(* lock has one that is still queued, at its head.                           *)
JobFits(t) ==
    LET w == job[t].work
    IN  /\ job[t].pc = "idle" => ~job[t].queued
        /\ job[t].pc # "idle" => w \in 1 .. Newest
        /\ job[t].pc = "claiming" => job[t].queued /\ pending # <<>> /\ Head(pending) = w
        /\ job[t].pc = "complete" => job[t].queued
        /\ job[t].pc \in {"running", "release", "complete"} => ~Pending(w)

(* One worker is on the stage and one holds the boundary's slot: the same, or *)
(* one that has left the stage.                                              *)
ClaimsAreOwned ==
    /\ \A t \in Worker : JobFits(t)
    /\ \A t \in OnStage : stage.active = job[t].work
    /\ stage.active # NoWork => OnStage # {}
    /\ \A t, u \in OnStage : t = u
    /\ boundary.inFlight = {job[t].work : t \in Holding}
    /\ \A t, u \in Holding : t = u

(* What a cancel that waits knows of its work.                               *)
WaitFits(t) ==
    LET w == call[t].work
    IN  /\ call[t].event # "none" <=> call[t].pc = "waiting"
        /\ call[t].pc = "waiting" => w \in 1 .. Newest
        /\ call[t].event = "live" => stage.active = w /\ stage.cancelling = w
        /\ call[t].event = "set" => Over(w)
        /\ call[t].event = "lost" => w \in orphaned

(* The result the stage keeps has been reported, and bars the work it is of.  *)
LastFits ==
    /\ stage.last.work = NoWork => stage.last = NoCancel
    /\ stage.last.work # NoWork => stage.last.outcome \in Outcome
    /\ stage.last.outcome = "completed" => stage.last.work \in reported.completed
    /\ stage.last.work # NoWork /\ stage.active = stage.last.work
         => stage.cancelling = stage.last.work \/ stage.last.work \in orphaned

CompletedAreOver == \A w \in reported.completed : Over(w)

(* What a flush has left to silence when it has come to a point.             *)
Scope(t) == {w \in 1 .. call[t].known : Matches(w, call[t].context)}
FlushFits(t) ==
    /\ call[t].pc = "idle" => call[t] = NoCall
    /\ call[t].known <= Newest
    /\ call[t].pc \in {"cancel", "waiting", "invalidate"} => call[t].context # NoContext
    /\ call[t].pc = "cancel" => call[t].work # NoWork
    /\ \A w \in Scope(t) : ~Pending(w)
    /\ \A w \in Scope(t) :
          \/ call[t].pc = "look"
          \/ call[t].pc = "cancel" /\ w = call[t].work
          \/ call[t].pc = "invalidate" /\ stage.closed
          \/ Silenced(w)

FlushedStaySilent == \A w \in flushed : Silenced(w) /\ (w \in orphaned \/ artifact[w] # "valid")

Promises ==
    /\ LastFits /\ CompletedAreOver /\ FlushedStaySilent
    /\ \A t \in Controller : WaitFits(t) /\ FlushFits(t)

VoiceInvariant == TypeInvariant /\ QueueIsOwned /\ ClaimsAreOwned /\ Promises

-----------------------------------------------------------------------------
(* The queue.                                                               *)

(* The boundary of the queue and the owner of the lemmas are one runtime.     *)
LEMMA SameOperations ==
    ASSUME NEW rt, NEW w
    PROVE  /\ Boundary!Rejection(rt, FALSE) = Owner!Rejection(rt, FALSE)
           /\ Boundary!Admitted(rt, w, FALSE) = Owner!Admitted(rt, w, FALSE)
           /\ Boundary!Claimed(rt, w) = Owner!Claimed(rt, w)
           /\ Boundary!Completed(rt, w) = Owner!Completed(rt, w)
           /\ Boundary!Paused(rt) = Owner!Paused(rt)
           /\ Boundary!Resumed(rt) = Owner!Resumed(rt)
           /\ Boundary!Closed(rt) = Owner!Closed(rt)
<1>1. Boundary!Cardinality(rt.inFlight) = Owner!Cardinality(rt.inFlight)
  BY DEF Boundary!Cardinality, Owner!Cardinality
<1>2. Boundary!Rejection(rt, FALSE) = Owner!Rejection(rt, FALSE)
  BY DEF Boundary!Rejection, Owner!Rejection, Boundary!AtCapacity, Owner!AtCapacity
<1>3. Boundary!Admitted(rt, w, FALSE) = Owner!Admitted(rt, w, FALSE)
  BY <1>2 DEF Boundary!Admitted, Owner!Admitted
<1>4. Boundary!IsPending(rt, w) <=> Owner!IsPending(rt, w)
  BY DEF Boundary!IsPending, Owner!IsPending
<1>5. Boundary!Without(rt.pending, w) = Owner!Without(rt.pending, w)
  BY DEF Boundary!Without, Owner!Without, Boundary!SeqExt!RemoveAt, Owner!SeqExt!RemoveAt
<1>6. Boundary!Claimed(rt, w) = Owner!Claimed(rt, w)
  BY <1>1, <1>4, <1>5 DEF Boundary!Claimed, Owner!Claimed
<1>7. QED
  BY <1>2, <1>3, <1>6 DEF Boundary!Completed, Owner!Completed, Boundary!Paused, Owner!Paused,
     Boundary!Resumed, Owner!Resumed, Boundary!Closed, Owner!Closed

(* In a queue without repetitions the head is taken out by taking the tail.   *)
LEMMA WithoutHead ==
    ASSUME NEW queued \in Seq(Work), queued # <<>>, Owner!Distinct(queued)
    PROVE  Owner!Without(queued, Head(queued)) = Tail(queued)
<1> DEFINE rest == Owner!Without(queued, Head(queued))
<1>1. Len(queued) \in Nat \ {0} /\ DOMAIN queued = 1 .. Len(queued) /\ Head(queued) = queued[1]
  BY HeadTailProperties, LenProperties
<1>2. PICK k \in 1 .. Len(queued) :
         /\ queued[k] = Head(queued)
         /\ rest \in Seq(Work)
         /\ Len(rest) = Len(queued) - 1
         /\ \A i \in 1 .. Len(queued) - 1 : rest[i] = IF i < k THEN queued[i] ELSE queued[i + 1]
  <2>1. 1 \in DOMAIN queued /\ queued[1] = Head(queued)
    BY <1>1
  <2>2. \E i \in DOMAIN queued : queued[i] = Head(queued)
    BY <2>1
  <2>3. ASSUME NEW item, \E i \in DOMAIN queued : queued[i] = item
        PROVE  \E k \in 1 .. Len(queued) :
                  /\ queued[k] = item
                  /\ Owner!Without(queued, item) \in Seq(Work)
                  /\ Len(Owner!Without(queued, item)) = Len(queued) - 1
                  /\ \A i \in 1 .. Len(queued) - 1 :
                        Owner!Without(queued, item)[i]
                            = IF i < k THEN queued[i] ELSE queued[i + 1]
    BY <2>3, VoiceAssumption, Owner!WithoutItem
  <2>4. QED
    BY <2>2, <2>3
<1> HIDE DEF rest
<1>3. k = 1
  <2>1. 1 \in DOMAIN queued /\ k \in DOMAIN queued /\ queued[k] = queued[1]
    BY <1>1, <1>2
  <2>2. QED
    BY <2>1 DEF Owner!Distinct
<1>4. /\ Tail(queued) \in Seq(Work) /\ Len(Tail(queued)) = Len(queued) - 1
      /\ \A i \in 1 .. Len(queued) - 1 : Tail(queued)[i] = queued[i + 1]
  BY <1>1, HeadTailProperties
<1>5. \A i \in 1 .. Len(rest) : rest[i] = Tail(queued)[i]
  BY <1>1, <1>2, <1>3, <1>4
<1>6. rest = Tail(queued)
  BY <1>2, <1>4, <1>5, SeqEqual
<1>7. QED
  BY <1>6 DEF rest

(* What is retained of a queue: its works that are not dropped, each once.    *)
LEMMA RetainedIsQueue ==
    ASSUME NEW queued \in Seq(Work), NEW dropped
    PROVE  LET retained == Retained(queued, dropped)
           IN  /\ retained \in Seq(Work) /\ Len(retained) <= Len(queued)
               /\ \A n \in DOMAIN retained :
                     \E i \in DOMAIN queued : retained[n] = queued[i] /\ queued[i] \notin dropped
               /\ Owner!Distinct(queued) => Owner!Distinct(retained)
<1> DEFINE kept == {i \in DOMAIN queued : queued[i] \notin dropped}
           rank(i) == Cardinality({j \in kept : j <= i})
           size == Cardinality(kept)
           at(n) == CHOOSE i \in kept : rank(i) = n
           retained == Retained(queued, dropped)
<1>1. Len(queued) \in Nat /\ DOMAIN queued = 1 .. Len(queued)
  BY LenProperties
<1>2. kept \subseteq 1 .. Len(queued)
  BY <1>1
<1>3. IsFiniteSet(kept) /\ size \in Nat /\ size <= Len(queued)
  <2>1. IsFiniteSet(1 .. Len(queued)) /\ Cardinality(1 .. Len(queued)) = Len(queued)
    BY <1>1, FS_Interval
  <2>2. QED
    BY <1>1, <1>2, <2>1, FS_Subset, FS_CardinalityType
<1>4. \A i \in kept : rank(i) \in 1 .. size
  <2>1. SUFFICES ASSUME NEW i \in kept PROVE rank(i) \in 1 .. size
    OBVIOUS
  <2> DEFINE upto == {j \in kept : j <= i}
  <2>2. upto \subseteq kept /\ i \in upto
    BY <1>2
  <2> HIDE DEF upto, kept
  <2>3. IsFiniteSet(upto) /\ Cardinality(upto) \in Nat /\ Cardinality(upto) <= size
    BY <1>3, <2>2, FS_Subset, FS_CardinalityType
  <2>4. Cardinality(upto) # 0
    BY <2>2, <2>3, FS_EmptySet
  <2>5. QED
    BY <1>3, <2>3, <2>4 DEF upto
<1>5. \A i, j \in kept : i < j => rank(i) < rank(j)
  <2>1. SUFFICES ASSUME NEW i \in kept, NEW j \in kept, i < j PROVE rank(i) < rank(j)
    OBVIOUS
  <2> DEFINE low == {m \in kept : m <= i} high == {m \in kept : m <= j}
  <2>2. low \subseteq high /\ high \subseteq kept /\ j \in high /\ j \notin low
    BY <1>2, <2>1
  <2> HIDE DEF low, high, kept
  <2>3. IsFiniteSet(high) /\ IsFiniteSet(low)
    BY <1>3, <2>2, FS_Subset
  <2>4. /\ Cardinality(low) \in Nat /\ Cardinality(high) \in Nat
        /\ Cardinality(low) <= Cardinality(high) /\ Cardinality(low) # Cardinality(high)
    BY <2>2, <2>3, FS_Subset, FS_CardinalityType
  <2>5. QED
    BY <2>4 DEF low, high
<1>6. \A i, j \in kept : rank(i) = rank(j) => i = j
  <2>1. \A i \in kept : i \in Nat
    BY <1>1, <1>2
  <2> HIDE DEF rank, kept
  <2>2. \A i \in kept : rank(i) \in Nat
    BY <1>3, <1>4
  <2>3. QED
    BY <1>5, <2>1, <2>2
<1>7. ASSUME NEW n \in 1 .. size PROVE \E i \in kept : rank(i) = n
  <2> DEFINE f == [i \in kept |-> rank(i)] T == (1 .. size) \ {n}
  <2> SUFFICES ASSUME \A i \in kept : rank(i) # n PROVE FALSE
    OBVIOUS
  <2>1. f \in [kept -> T]
    BY <1>4
  <2>2. IsFiniteSet(T) /\ Cardinality(T) = size - 1
    <3>1. IsFiniteSet(1 .. size) /\ Cardinality(1 .. size) = size
      BY <1>3, FS_Interval
    <3>2. QED
      BY <3>1, <1>7, FS_RemoveElement
  <2>3. \E i, j \in kept : i # j /\ f[i] = f[j]
    <3> HIDE DEF f, T, kept
    <3>1. Cardinality(T) < Cardinality(kept)
      BY <1>3, <2>2
    <3>2. QED
      BY <1>3, <2>1, <2>2, <3>1, FS_PigeonHole
  <2> HIDE DEF rank, kept
  <2>4. QED
    BY <1>6, <2>3
<1>8. \A n \in 1 .. size : at(n) \in kept /\ rank(at(n)) = n
  <2> HIDE DEF rank, kept
  <2>1. QED
    BY <1>7
<1>9. retained = [n \in 1 .. size |-> queued[at(n)]]
  BY DEF Retained
<1> HIDE DEF at, rank, retained, size
<1>10. /\ retained \in Seq(Work) /\ Len(retained) = size /\ DOMAIN retained = 1 .. size
       /\ \A n \in 1 .. size : retained[n] = queued[at(n)]
  <2>1. \A n \in 1 .. size : queued[at(n)] \in Work
    BY <1>1, <1>2, <1>8, LenProperties
  <2>2. retained \in [1 .. size -> Work]
    BY <1>9, <2>1
  <2>3. QED
    BY <1>3, <1>9, <2>2, SeqDef, LenProperties
<1>11. ASSUME Owner!Distinct(queued), NEW m \in 1 .. size, NEW n \in 1 .. size,
              retained[m] = retained[n]
       PROVE  m = n
  <2>1. at(m) = at(n)
    BY <1>1, <1>2, <1>8, <1>10, <1>11 DEF Owner!Distinct
  <2>2. QED
    BY <1>8, <2>1
<1>12. QED
  BY <1>3, <1>8, <1>10, <1>11 DEF retained, Owner!Distinct

(* What every step leaves of the queue: it stays owned, works and their       *)
(* contexts stay what they are, and no old work is queued again.             *)
QueueGoesOn ==
    /\ QueueIsOwned'
    /\ contextOf' \in Seq(Context) /\ Newest' \in Newest .. MaxWork
    /\ \A w \in 1 .. Newest : contextOf'[w] = contextOf[w]
    /\ \A w \in 1 .. Newest : Pending(w)' => Pending(w)

LEMMA QueueFacts ==
    ASSUME QueueTypes, QueueIsOwned
    PROVE  /\ Newest \in 0 .. MaxWork /\ contextOf \in Seq(Context)
           /\ DOMAIN contextOf = 1 .. Newest
           /\ pending \in Seq(Work) /\ boundary.pending = pending
           /\ boundary \in Owner!Runtime /\ Owner!Sound(boundary) /\ Owner!Distinct(pending)
           /\ \A w : Pending(w) => w \in 1 .. Newest
<1>1. contextOf \in Seq(Context) /\ Len(contextOf) \in Nat /\ Len(contextOf) <= MaxWork
  BY LenProperties DEF QueueTypes, Newest
<1>2. QED
  BY <1>1, VoiceAssumption, LenProperties
     DEF QueueTypes, QueueIsOwned, Newest, Pending, Owner!Sound

LEMMA QueueIsKept ==
    ASSUME QueueTypes, QueueIsOwned, UNCHANGED <<queue, contextOf>>
    PROVE  QueueGoesOn
<1>1. UNCHANGED <<pending, boundary, contextOf>>
  BY DEF queue
<1>2. QED
  BY <1>1, QueueFacts DEF QueueGoesOn, QueueIsOwned, Newest, Pending

LEMMA ContextsGrow ==
    ASSUME QueueTypes, QueueIsOwned, NEW c \in Context, NextWork \in Work,
           contextOf' = Append(contextOf, c)
    PROVE  /\ contextOf' \in Seq(Context) /\ Newest' = NextWork
           /\ Newest' \in Newest .. MaxWork
           /\ \A w \in 1 .. Newest : contextOf'[w] = contextOf[w]
<1>1. Newest \in Nat /\ contextOf \in Seq(Context) /\ Newest = Len(contextOf)
  BY QueueFacts DEF Newest
<1>2. /\ contextOf' \in Seq(Context) /\ Len(contextOf') = Len(contextOf) + 1
      /\ \A w \in 1 .. Len(contextOf) : contextOf'[w] = contextOf[w]
  BY <1>1, AppendProperties
<1>3. Newest' = NextWork
  BY <1>1, <1>2 DEF Newest, NextWork
<1>4. QED
  BY <1>1, <1>2, <1>3 DEF NextWork, Work

(* An accepted work is new to the queue and to its boundary.                 *)
LEMMA EnqueueKeepsQueue ==
    ASSUME QueueTypes, QueueIsOwned, boundary.inFlight \subseteq 1 .. Newest,
           NEW c \in Context, Enqueue(c)
    PROVE  QueueGoesOn /\ boundary'.inFlight = boundary.inFlight
<1> DEFINE why == Owner!Rejection(boundary, FALSE)
<1>1. /\ NextWork \in Work /\ boundary' = Owner!Admitted(boundary, NextWork, FALSE)
      /\ IF why = "none"
           THEN pending' = Append(pending, NextWork) /\ contextOf' = Append(contextOf, c)
           ELSE UNCHANGED <<pending, contextOf>>
  BY SameOperations DEF Enqueue
<1>2. NextWork \notin Owner!Owned(boundary)
  BY QueueFacts DEF Owner!Owned, Owner!IsPending, QueueIsOwned, NextWork
<1>3. Owner!Sound(boundary')
  <2>1. \A immediately \in BOOLEAN : Owner!Sound(Owner!Admitted(boundary, NextWork, immediately))
    BY <1>1, <1>2, QueueFacts, Owner!AdmittedIsSound, VoiceAssumption
  <2>2. Owner!Sound(Owner!Admitted(boundary, NextWork, FALSE))
    BY <2>1, Zenon
  <2>3. QED
    BY <1>1, <2>2
<1>4. boundary'.inFlight = boundary.inFlight
      /\ boundary'.pending = IF why = "none" THEN Append(boundary.pending, NextWork)
                             ELSE boundary.pending
  BY <1>1, QueueFacts DEF Owner!Admitted, Owner!Runtime
<1>5. boundary'.pending = pending'
  BY <1>1, <1>4, QueueFacts
<1>6. CASE why = "none"
  <2>1. pending' = Append(pending, NextWork) /\ contextOf' = Append(contextOf, c)
    BY <1>1, <1>6
  <2>2. /\ contextOf' \in Seq(Context) /\ Newest' = NextWork /\ Newest' \in Newest .. MaxWork
        /\ \A w \in 1 .. Newest : contextOf'[w] = contextOf[w]
    BY <1>1, <2>1, ContextsGrow
  <2>3. /\ DOMAIN pending' = DOMAIN pending \cup {Len(pending) + 1}
        /\ pending'[Len(pending) + 1] = NextWork
        /\ \A i \in DOMAIN pending : pending'[i] = pending[i]
    BY <1>1, <2>1, QueueFacts, AppendProperties
  <2>4. Newest \in Nat /\ NextWork = Newest + 1
    BY QueueFacts DEF NextWork
  <2>5. \A i \in DOMAIN pending' : pending'[i] \in 1 .. Newest'
    BY <2>2, <2>3, <2>4 DEF QueueIsOwned
  <2>6. \A w \in 1 .. Newest : Pending(w)' => Pending(w)
    BY <2>3, <2>4 DEF Pending
  <2>7. QED
    BY <1>3, <1>4, <1>5, <2>2, <2>5, <2>6 DEF QueueGoesOn, QueueIsOwned
<1>7. CASE why # "none"
  <2>1. UNCHANGED <<pending, contextOf>>
    BY <1>1, <1>7
  <2>2. Newest' = Newest /\ \A w : Pending(w)' <=> Pending(w)
    BY <2>1 DEF Newest, Pending
  <2>3. QueueIsOwned'
    BY <1>3, <1>5, <2>1, <2>2 DEF QueueIsOwned
  <2>4. QED
    BY <1>4, <2>1, <2>2, <2>3, QueueFacts DEF QueueGoesOn
<1>8. QED
  BY <1>6, <1>7

(* clear_pending leaves the same works in the queue and in its boundary.      *)
LEMMA ClearKeepsQueue ==
    ASSUME QueueTypes, QueueIsOwned, NEW c, Clear(c), UNCHANGED contextOf
    PROVE  /\ QueueGoesOn /\ boundary'.inFlight = boundary.inFlight
           /\ \A w \in 1 .. Newest : Matches(w, c) => ~Pending(w)'
<1> DEFINE left == Retained(pending, Cleared(c))
<1>1. pending' = left /\ boundary' = [boundary EXCEPT !.pending = left]
  BY QueueFacts DEF Clear
<1>2. /\ left \in Seq(Work) /\ Len(left) <= Len(pending)
      /\ \A n \in DOMAIN left :
            \E i \in DOMAIN pending : left[n] = pending[i] /\ pending[i] \notin Cleared(c)
      /\ Owner!Distinct(left)
  BY QueueFacts, RetainedIsQueue
<1> HIDE DEF left
<1>3. /\ boundary' \in Owner!Runtime /\ boundary'.pending = left
      /\ boundary'.inFlight = boundary.inFlight
  BY <1>1, <1>2, QueueFacts DEF Owner!Runtime
<1>4. Len(left) <= MaxDepth
  <2>1. Len(left) \in Nat /\ Len(pending) \in Nat /\ Len(pending) <= MaxDepth /\ MaxDepth \in Nat
    BY <1>2, QueueFacts, LenProperties, VoiceAssumption DEF QueueTypes
  <2>2. QED
    BY <1>2, <2>1
<1>5. Owner!Sound(boundary')
  BY <1>2, <1>3, <1>4, QueueFacts DEF Owner!Sound
<1>6. \A w : Pending(w)' => Pending(w) /\ w \notin Cleared(c)
  BY <1>1, <1>2 DEF Pending
<1>7. \A i \in DOMAIN pending' : pending'[i] \in 1 .. Newest
  BY <1>1, <1>2 DEF QueueIsOwned
<1>8. Newest' = Newest
  BY DEF Newest
<1>9. QueueGoesOn
  BY <1>1, <1>3, <1>5, <1>6, <1>7, <1>8, QueueFacts DEF QueueGoesOn, QueueIsOwned
<1>10. QED
  BY <1>3, <1>6, <1>9 DEF Cleared

LEMMA ControlKeepsQueue ==
    ASSUME QueueTypes, QueueIsOwned, ControlAdmission
    PROVE  QueueGoesOn /\ boundary'.inFlight = boundary.inFlight
<1>1. /\ boundary' \in {Owner!Paused(boundary), Owner!Resumed(boundary), Owner!Closed(boundary)}
      /\ UNCHANGED <<pending, contextOf>>
  BY SameOperations DEF ControlAdmission
<1>2. Owner!Sound(boundary')
  BY <1>1, QueueFacts, Owner!ControlIsSound, VoiceAssumption
<1>3. boundary'.inFlight = boundary.inFlight /\ boundary'.pending = boundary.pending
  BY <1>1, QueueFacts DEF Owner!Paused, Owner!Resumed, Owner!Closed, Owner!Runtime
<1>4. QED
  BY <1>1, <1>2, <1>3, QueueFacts DEF QueueGoesOn, QueueIsOwned, Newest, Pending

(* A claim that the boundary grants takes the head out of both.              *)
LEMMA ClaimKeepsQueue ==
    ASSUME QueueTypes, QueueIsOwned, NEW t \in Worker, Claims(t), UNCHANGED contextOf,
           pending # <<>>, Head(pending) = job[t].work
    PROVE  /\ QueueGoesOn /\ boundary.inFlight = {} /\ boundary'.inFlight = {job[t].work}
           /\ \A w : w = job[t].work => ~Pending(w)'
<1> DEFINE w == job[t].work
<1>1. boundary' = Owner!Claimed(boundary, w) /\ boundary' # boundary /\ pending' = Tail(pending)
  BY SameOperations DEF Claims
<1>2. /\ Len(pending) \in Nat \ {0} /\ DOMAIN pending = 1 .. Len(pending) /\ w = pending[1]
      /\ Tail(pending) \in Seq(Work) /\ Len(Tail(pending)) = Len(pending) - 1
      /\ \A i \in 1 .. Len(pending) - 1 : Tail(pending)[i] = pending[i + 1]
  BY QueueFacts, HeadTailProperties, LenProperties
<1>3. w \in Work
  BY <1>2, QueueFacts, LenProperties
<1> HIDE DEF w
<1>4. Owner!Sound(boundary')
  BY <1>1, <1>3, QueueFacts, Owner!ClaimedIsSound, VoiceAssumption
<1>5. /\ ~(Owner!Cardinality(boundary.inFlight) >= 1)
      /\ boundary' = [boundary EXCEPT !.pending = Owner!Without(@, w), !.inFlight = @ \cup {w}]
  BY <1>1 DEF Owner!Claimed
<1>6. boundary.inFlight = {}
  <2>1. Owner!Cardinality(boundary.inFlight) = Cardinality(boundary.inFlight)
    BY DEF Owner!Cardinality, Cardinality
  <2>2. Owner!IsFiniteSet(boundary.inFlight) => IsFiniteSet(boundary.inFlight)
    BY DEF Owner!IsFiniteSet, IsFiniteSet
  <2>3. IsFiniteSet(boundary.inFlight) /\ Cardinality(boundary.inFlight) \in Nat
    BY <2>2, QueueFacts, FS_CardinalityType DEF Owner!Sound
  <2>4. QED
    BY <1>5, <2>1, <2>3, FS_EmptySet
<1>7. boundary'.pending = pending' /\ boundary'.inFlight = {w}
  <2>1. Owner!Without(pending, w) = Tail(pending)
    BY QueueFacts, WithoutHead DEF w
  <2>2. QED
    BY <1>1, <1>5, <1>6, <2>1, QueueFacts DEF Owner!Runtime
<1>8. DOMAIN pending' = 1 .. Len(pending) - 1
  BY <1>1, <1>2, LenProperties
<1>9. \A i \in DOMAIN pending' : i + 1 \in DOMAIN pending /\ i + 1 # 1 /\ pending'[i] = pending[i + 1]
  BY <1>1, <1>2, <1>8
<1>10. /\ \A i \in DOMAIN pending' : pending'[i] \in 1 .. Newest
       /\ \A v : Pending(v)' => Pending(v)
  BY <1>9 DEF QueueIsOwned, Pending
<1>11. \A v : v = w => ~Pending(v)'
  <2>1. SUFFICES ASSUME NEW i \in DOMAIN pending', pending'[i] = w PROVE FALSE
    BY DEF Pending
  <2>2. 1 \in DOMAIN pending /\ i + 1 \in DOMAIN pending /\ pending[i + 1] = pending[1] /\ i + 1 # 1
    BY <1>2, <1>9, <2>1
  <2>3. QED
    BY <2>2, QueueFacts DEF Owner!Distinct
<1>12. QueueGoesOn
  BY <1>4, <1>7, <1>10, QueueFacts DEF QueueGoesOn, QueueIsOwned, Newest
<1>13. QED
  BY <1>6, <1>7, <1>11, <1>12 DEF w

LEMMA CompleteKeepsQueue ==
    ASSUME QueueTypes, QueueIsOwned, NEW t \in Worker, job[t].work \in Work, Complete(t)
    PROVE  QueueGoesOn /\ boundary'.inFlight = boundary.inFlight \ {job[t].work}
<1>1. boundary' = Owner!Completed(boundary, job[t].work) /\ UNCHANGED <<pending, contextOf>>
  BY SameOperations DEF Complete
<1>2. Owner!Sound(boundary')
  BY <1>1, QueueFacts, Owner!CompletedIsSound, VoiceAssumption
<1>3. /\ boundary'.inFlight = boundary.inFlight \ {job[t].work}
      /\ boundary'.pending = boundary.pending
  BY <1>1, QueueFacts DEF Owner!Completed, Owner!Runtime
<1>4. QED
  BY <1>1, <1>2, <1>3, QueueFacts DEF QueueGoesOn, QueueIsOwned, Newest, Pending

(* The queue's types follow, and a queued work is a work.                     *)
LEMMA QueueIsTyped ==
    ASSUME QueueGoesOn
    PROVE  QueueTypes'
<1>1. /\ Owner!Sound(boundary') /\ boundary'.pending = pending'
      /\ contextOf' \in Seq(Context) /\ Newest' <= MaxWork
  BY DEF QueueGoesOn, QueueIsOwned
<1>2. /\ boundary' \in Owner!Runtime /\ boundary'.pending \in Seq(Work)
      /\ Len(boundary'.pending) <= MaxDepth
  BY <1>1 DEF Owner!Sound, Owner!Runtime
<1>3. (Boundary!RuntimeTypes)'
  BY <1>2 DEF Boundary!RuntimeTypes, Boundary!Runtime, Owner!Runtime
<1>4. QED
  BY <1>1, <1>2, <1>3 DEF QueueTypes

-----------------------------------------------------------------------------
(* The workers.                                                             *)

(* A worker that does not move has what it had.                              *)
LEMMA IdleWorkersFit ==
    ASSUME TypeInvariant, QueueIsOwned, QueueGoesOn, NEW u \in Worker, JobFits(u),
           job'[u] = job[u], job[u].pc = "claiming" => pending' = pending
    PROVE  JobFits(u)'
<1> DEFINE w == job[u].work
<1>1. Newest \in Nat /\ Newest' \in Nat /\ Newest <= Newest'
  BY QueueFacts DEF QueueGoesOn, TypeInvariant
<1>2. \A v \in 1 .. Newest : Pending(v)' => Pending(v)
  BY DEF QueueGoesOn
<1>3. job[u].pc \in {"running", "release", "complete"} => ~Pending(job[u].work)'
  BY <1>1, <1>2 DEF JobFits, Pending
<1>4. QED
  BY <1>1, <1>3 DEF JobFits

(* Steps that move no worker.                                                *)
LEMMA WorkersStay ==
    ASSUME TypeInvariant, QueueIsOwned, QueueGoesOn, ClaimsAreOwned, job' = job,
           stage'.active = stage.active, boundary'.inFlight = boundary.inFlight,
           pending' = pending \/ QueueLockFree
    PROVE  ClaimsAreOwned'
<1>1. \A u \in Worker : JobFits(u)'
  BY IdleWorkersFit DEF ClaimsAreOwned, QueueLockFree
<1>2. OnStage' = OnStage /\ Holding' = Holding
  BY DEF OnStage, Holding
<1>3. QED
  BY <1>1, <1>2 DEF ClaimsAreOwned

(* One worker moves: what the others are at is unchanged.                     *)
Moves(t, new) ==
    /\ t \in Worker /\ job' = [job EXCEPT ![t] = new]
    /\ \A u \in Worker : u # t /\ job[u].pc = "claiming" => pending' = pending

LEMMA OthersStay ==
    ASSUME TypeInvariant, QueueIsOwned, QueueGoesOn, ClaimsAreOwned, NEW t, NEW new, Moves(t, new)
    PROVE  /\ job'[t] = new
           /\ \A u \in Worker : u # t => job'[u] = job[u] /\ JobFits(u)'
           /\ OnStage' \ {t} = OnStage \ {t} /\ Holding' \ {t} = Holding \ {t}
           /\ t \in OnStage' <=> new.pc \in {"claiming", "running", "release"}
           /\ t \in Holding' <=> new.queued /\ new.pc \in {"running", "release", "complete"}
<1>1. job'[t] = new /\ \A u \in Worker : u # t => job'[u] = job[u]
  BY DEF Moves, TypeInvariant, ThreadTypes, JobRecord, CallRecord
<1>2. \A u \in Worker : u # t => JobFits(u)'
  BY <1>1, IdleWorkersFit DEF ClaimsAreOwned, Moves
<1>3. QED
  BY <1>1, <1>2 DEF OnStage, Holding, Moves

LEMMA HandOffKeepsClaims ==
    ASSUME TypeInvariant, QueueIsOwned, ClaimsAreOwned, QueueGoesOn, NEW t \in Worker, HandOff(t)
    PROVE  ClaimsAreOwned'
<1> DEFINE new == [job[t] EXCEPT !.pc = "claiming", !.work = Head(pending), !.queued = TRUE]
<1>1. Moves(t, new) /\ new.pc = "claiming" /\ new.work = Head(pending) /\ new.queued
  BY DEF HandOff, Moves, queue, TypeInvariant, ThreadTypes, JobRecord, CallRecord
<1>2. OnStage = {} /\ t \notin Holding
  <2>1. \A u \in OnStage : job[u].work # NoWork
    BY DEF OnStage, ClaimsAreOwned, JobFits, NoWork
  <2>2. QED
    BY <2>1 DEF HandOff, Claimable, ClaimsAreOwned, Holding
<1>3. /\ pending # <<>> /\ Head(pending) \in 1 .. Newest
      /\ stage'.active = Head(pending) /\ UNCHANGED <<pending, boundary, contextOf>>
  <2>1. Len(pending) \in Nat \ {0} /\ DOMAIN pending = 1 .. Len(pending) /\ Head(pending) = pending[1]
    BY QueueFacts, HeadTailProperties, LenProperties DEF HandOff, TypeInvariant
  <2>2. QED
    BY <2>1 DEF HandOff, ClaimStage, QueueIsOwned, queue, TypeInvariant, OwnerTypes
<1> HIDE DEF new
<1>4. JobFits(t)'
  BY <1>1, <1>3, OthersStay DEF JobFits, Newest
<1>5. OnStage' = {t} /\ Holding' = Holding
  BY <1>1, <1>2, OthersStay
<1>6. \A u \in Holding : job'[u].work = job[u].work
  BY <1>1, <1>2, OthersStay DEF Holding
<1>7. {job'[u].work : u \in Holding'} = {job[u].work : u \in Holding}
  BY <1>5, <1>6
<1>8. QED
  BY <1>1, <1>3, <1>4, <1>5, <1>7, OthersStay DEF ClaimsAreOwned

(* The boundary gives the claiming worker its slot, or takes the stage back.  *)
LEMMA ClaimKeepsClaims ==
    ASSUME TypeInvariant, QueueIsOwned, ClaimsAreOwned, NEW t \in Worker, ClaimBoundary(t)
    PROVE  QueueGoesOn /\ ClaimsAreOwned'
<1>1. /\ t \in OnStage /\ OnStage = {t} /\ stage.active = job[t].work /\ job[t].queued
      /\ job[t].work \in 1 .. Newest /\ pending # <<>> /\ Head(pending) = job[t].work
      /\ UNCHANGED contextOf
  BY DEF ClaimBoundary, OnStage, ClaimsAreOwned, JobFits
<1>2. \A u \in Worker : u # t => job[u].pc # "claiming"
  BY <1>1 DEF OnStage
<1>3. CASE Claims(t)
  <2> DEFINE new == [job[t] EXCEPT !.pc = "running"]
  <2>1. /\ QueueGoesOn /\ boundary.inFlight = {} /\ boundary'.inFlight = {job[t].work}
        /\ \A w : w = job[t].work => ~Pending(w)'
    BY <1>1, <1>3, ClaimKeepsQueue DEF TypeInvariant
  <2>2. Moves(t, new) /\ new.pc = "running" /\ new.work = job[t].work /\ new.queued
    BY <1>1, <1>2, <1>3 DEF Claims, Moves, TypeInvariant, ThreadTypes, JobRecord, CallRecord
  <2> HIDE DEF new
  <2>3. JobFits(t)'
    <3>1. job'[t] = new /\ job'[t].work = job[t].work
      BY <2>1, <2>2, OthersStay
    <3>2. \A i \in DOMAIN pending' : pending'[i] # job[t].work
      BY <2>1 DEF Pending
    <3>3. ~Pending(job[t].work)'
      BY <3>1, <3>2 DEF Pending
    <3>4. job'[t].work \in 1 .. Newest'
      BY <1>1, <2>1, <3>1, QueueFacts DEF QueueGoesOn, TypeInvariant
    <3>5. QED
      BY <2>2, <3>1, <3>3, <3>4 DEF JobFits
  <2>4. Holding = {}
    BY <2>1 DEF ClaimsAreOwned
  <2>5. OnStage' = {t} /\ Holding' = {t} /\ job'[t].work = job[t].work
    BY <1>1, <2>1, <2>2, <2>4, OthersStay
  <2>6. boundary'.inFlight = {job'[u].work : u \in Holding'}
    BY <2>1, <2>5
  <2>7. stage' = stage
    BY <1>3 DEF Claims
  <2>8. QED
    BY <1>1, <2>1, <2>2, <2>3, <2>5, <2>6, <2>7, OthersStay DEF ClaimsAreOwned
<1>4. CASE GivesBack(t)
  <2>1. QueueGoesOn /\ UNCHANGED <<pending, boundary>>
    BY <1>1, <1>4, QueueIsKept DEF GivesBack, queue, TypeInvariant
  <2>2. Moves(t, Idle)
    BY <1>2, <1>4 DEF GivesBack, Moves
  <2>3. JobFits(t)'
    BY <2>1, <2>2, OthersStay DEF JobFits, Idle
  <2>4. OnStage' = {} /\ Holding' = Holding /\ t \notin Holding
    BY <1>1, <2>1, <2>2, OthersStay DEF Idle, ClaimBoundary, Holding
  <2>5. {job'[u].work : u \in Holding'} = {job[u].work : u \in Holding}
    BY <2>1, <2>2, <2>4, OthersStay DEF Holding
  <2>6. stage'.active = NoWork
    BY <1>4 DEF GivesBack, TypeInvariant, OwnerTypes
  <2>7. \A u \in Worker : JobFits(u)'
    BY <2>1, <2>2, <2>3, OthersStay
  <2>8. boundary'.inFlight = {job'[u].work : u \in Holding'}
    BY <2>1, <2>5 DEF ClaimsAreOwned
  <2>9. QED
    BY <2>1, <2>4, <2>6, <2>7, <2>8 DEF ClaimsAreOwned
<1>5. QED
  BY <1>3, <1>4 DEF ClaimBoundary

LEMMA StartKeepsClaims ==
    ASSUME TypeInvariant, QueueIsOwned, ClaimsAreOwned, NEW t \in Worker, NEW c \in Context,
           Start(t, c)
    PROVE  QueueGoesOn /\ ClaimsAreOwned'
<1> DEFINE new == [job[t] EXCEPT !.pc = "running", !.work = NextWork]
<1>1. /\ contextOf' \in Seq(Context) /\ Newest' = NextWork /\ Newest' \in Newest .. MaxWork
      /\ \A w \in 1 .. Newest : contextOf'[w] = contextOf[w]
  BY ContextsGrow DEF Start, TypeInvariant
<1>2. UNCHANGED <<pending, boundary>> /\ Newest \in Nat /\ NextWork = Newest + 1
  BY QueueFacts DEF Start, queue, TypeInvariant, NextWork
<1>3. QueueGoesOn
  BY <1>1, <1>2, QueueFacts DEF QueueGoesOn, QueueIsOwned, Pending
<1>4. /\ Moves(t, new) /\ new.pc = "running" /\ new.work = NextWork
      /\ ~new.queued /\ job[t].pc = "idle"
  BY <1>2 DEF Start, Moves, TypeInvariant, ThreadTypes, JobRecord, CallRecord, ClaimsAreOwned, JobFits
<1>5. OnStage = {} /\ t \notin Holding
  <2>1. \A u \in OnStage : job[u].work # NoWork
    BY DEF OnStage, ClaimsAreOwned, JobFits, NoWork
  <2>2. QED
    BY <1>4, <2>1 DEF Start, Claimable, ClaimsAreOwned, Holding
<1>6. stage'.active = NextWork
  BY DEF Start, ClaimStage, TypeInvariant, OwnerTypes
<1> HIDE DEF new
<1>7. JobFits(t)'
  <2>1. NextWork \notin 1 .. Newest
    BY <1>2
  <2>2. \A i \in DOMAIN pending : pending[i] # NextWork
    BY <2>1 DEF QueueIsOwned
  <2>3. job'[t].work = NextWork /\ job'[t].pc = "running" /\ ~job'[t].queued
    BY <1>3, <1>4, OthersStay
  <2>4. ~Pending(job[t].work)' /\ job'[t].work \in 1 .. Newest'
    BY <1>1, <1>2, <2>2, <2>3 DEF Pending
  <2>5. QED
    BY <2>3, <2>4 DEF JobFits
<1>8. OnStage' = {t} /\ Holding' = Holding
  BY <1>3, <1>4, <1>5, OthersStay
<1>9. {job'[u].work : u \in Holding'} = {job[u].work : u \in Holding}
  BY <1>3, <1>4, <1>5, <1>8, OthersStay DEF Holding
<1>10. \A u \in Worker : JobFits(u)'
  BY <1>3, <1>4, <1>7, OthersStay
<1>11. job'[t].work = NextWork /\ boundary'.inFlight = {job'[u].work : u \in Holding'}
  BY <1>2, <1>3, <1>4, <1>9, OthersStay DEF ClaimsAreOwned
<1>12. QED
  BY <1>3, <1>6, <1>8, <1>10, <1>11 DEF ClaimsAreOwned

(* The provider's result, or its failure, leaves the work where it is.        *)
LEMMA ResultKeepsClaims ==
    ASSUME TypeInvariant, QueueIsOwned, ClaimsAreOwned, QueueGoesOn, NEW t \in Worker,
           Publish(t) \/ SynthesisFails(t)
    PROVE  ClaimsAreOwned'
<1>1. job[t].pc = "running" /\ UNCHANGED <<pending, boundary, stage, contextOf>>
  BY DEF Publish, SynthesisFails, queue
<1>2. PICK new : /\ Moves(t, new) /\ new.pc = "release" /\ new.work = job[t].work
                 /\ new.queued = job[t].queued
  <2>1. CASE Publish(t)
    <3> DEFINE new == [job[t] EXCEPT !.pc = "release", !.result = Verdict(job[t].work)]
    <3>1. Moves(t, new) /\ new.pc = "release" /\ new.work = job[t].work /\ new.queued = job[t].queued
      BY <1>1, <2>1 DEF Publish, Moves, TypeInvariant, ThreadTypes, JobRecord, CallRecord
    <3>2. QED
      BY <3>1
  <2>2. CASE SynthesisFails(t)
    <3> DEFINE new == [job[t] EXCEPT !.pc = "release"]
    <3>1. Moves(t, new) /\ new.pc = "release" /\ new.work = job[t].work /\ new.queued = job[t].queued
      BY <1>1, <2>2 DEF SynthesisFails, Moves, TypeInvariant, ThreadTypes, JobRecord, CallRecord
    <3>2. QED
      BY <3>1
  <2>3. QED
    BY <2>1, <2>2
<1>3. job'[t].work = job[t].work /\ job'[t].pc = "release" /\ job'[t].queued = job[t].queued
  BY <1>2, OthersStay
<1>4. OnStage' = OnStage /\ Holding' = Holding
  BY <1>1, <1>2, OthersStay DEF OnStage, Holding
<1>5. \A u \in Worker : job'[u].work = job[u].work
  BY <1>2, <1>3, OthersStay
<1>6. JobFits(t)'
  BY <1>1, <1>3 DEF JobFits, ClaimsAreOwned, Newest, Pending
<1>7. {job'[u].work : u \in Holding'} = {job[u].work : u \in Holding}
  BY <1>4, <1>5 DEF Holding
<1>8. \A u \in Worker : JobFits(u)'
  BY <1>2, <1>6, OthersStay
<1>9. boundary'.inFlight = {job'[u].work : u \in Holding'} /\ stage' = stage
  BY <1>1, <1>7 DEF ClaimsAreOwned
<1>10. \A u \in OnStage' : stage'.active = job'[u].work
  BY <1>4, <1>5, <1>9 DEF ClaimsAreOwned, OnStage
<1>11. QED
  BY <1>4, <1>8, <1>9, <1>10 DEF ClaimsAreOwned

LEMMA ReleaseKeepsClaims ==
    ASSUME TypeInvariant, QueueIsOwned, ClaimsAreOwned, QueueGoesOn, NEW t \in Worker, Release(t)
    PROVE  ClaimsAreOwned'
<1>1. /\ job[t].pc = "release" /\ UNCHANGED <<pending, boundary, contextOf>>
      /\ stage'.active = NoWork
  BY DEF Release, queue, TypeInvariant, OwnerTypes
<1>2. OnStage = {t}
  BY <1>1 DEF OnStage, ClaimsAreOwned
<1>3. CASE job[t].queued
  <2> DEFINE new == [job[t] EXCEPT !.pc = "complete"]
  <2>1. Moves(t, new) /\ new.pc = "complete" /\ new.work = job[t].work /\ new.queued
    BY <1>1, <1>3 DEF Release, Moves, TypeInvariant, ThreadTypes, JobRecord, CallRecord
  <2> HIDE DEF new
  <2>2. job'[t].work = job[t].work /\ job'[t].pc = "complete" /\ job'[t].queued
    BY <2>1, OthersStay
  <2>3. OnStage' = {} /\ Holding' = Holding
    BY <1>1, <1>2, <1>3, <2>1, OthersStay DEF Holding
  <2>4. {job'[u].work : u \in Holding'} = {job[u].work : u \in Holding}
    BY <2>1, <2>2, <2>3, OthersStay DEF Holding
  <2>5. JobFits(t)'
    BY <1>1, <2>2 DEF JobFits, ClaimsAreOwned, Newest, Pending
  <2>6. QED
    BY <1>1, <2>1, <2>3, <2>4, <2>5, OthersStay DEF ClaimsAreOwned
<1>4. CASE ~job[t].queued
  <2>1. Moves(t, Idle)
    BY <1>1, <1>4 DEF Release, Moves
  <2>2. OnStage' = {} /\ Holding' = Holding /\ t \notin Holding
    BY <1>1, <1>2, <1>4, <2>1, OthersStay DEF Holding, Idle
  <2>3. {job'[u].work : u \in Holding'} = {job[u].work : u \in Holding}
    BY <2>1, <2>2, OthersStay DEF Holding
  <2>4. JobFits(t)'
    BY <2>1, OthersStay DEF JobFits, Idle
  <2>5. QED
    BY <1>1, <2>1, <2>2, <2>3, <2>4, OthersStay DEF ClaimsAreOwned
<1>5. QED
  BY <1>3, <1>4

LEMMA CompleteKeepsClaims ==
    ASSUME TypeInvariant, QueueIsOwned, ClaimsAreOwned, NEW t \in Worker, Complete(t)
    PROVE  QueueGoesOn /\ ClaimsAreOwned'
<1>1. /\ job[t].pc = "complete" /\ job[t].queued /\ job[t].work \in 1 .. Newest
      /\ UNCHANGED <<pending, stage>>
  BY DEF Complete, ClaimsAreOwned, JobFits
<1>2. job[t].work \in Work
  BY <1>1, QueueFacts, VoiceAssumption DEF TypeInvariant, Work
<1>3. QueueGoesOn /\ boundary'.inFlight = boundary.inFlight \ {job[t].work}
  BY <1>2, CompleteKeepsQueue DEF TypeInvariant
<1>4. Moves(t, Idle)
  BY <1>1 DEF Complete, Moves
<1>5. Holding = {t} /\ t \notin OnStage
  BY <1>1 DEF Holding, OnStage, ClaimsAreOwned
<1>6. boundary'.inFlight = {}
  BY <1>3, <1>5 DEF ClaimsAreOwned
<1>7. OnStage' = OnStage /\ Holding' = {}
  BY <1>3, <1>4, <1>5, OthersStay DEF Idle
<1>8. JobFits(t)'
  BY <1>3, <1>4, OthersStay DEF JobFits, Idle
<1>9. \A u \in Worker : JobFits(u)'
  BY <1>3, <1>4, <1>8, OthersStay
<1>10. \A u \in OnStage' : stage'.active = job'[u].work
  <2>1. SUFFICES ASSUME NEW u \in OnStage PROVE stage.active = job'[u].work
    BY <1>1, <1>7
  <2>2. u \in Worker /\ u # t
    BY <1>5 DEF OnStage
  <2>3. QED
    BY <1>3, <1>4, <2>2, OthersStay DEF ClaimsAreOwned
<1>11. stage'.active # NoWork => OnStage' # {}
  BY <1>1, <1>7 DEF ClaimsAreOwned
<1>12. \A u, v \in OnStage' : u = v
  BY <1>7 DEF ClaimsAreOwned
<1>13. boundary'.inFlight = {job'[u].work : u \in Holding'}
  BY <1>6, <1>7
<1>14. QED
  BY <1>3, <1>7, <1>9, <1>10, <1>11, <1>12, <1>13 DEF ClaimsAreOwned

-----------------------------------------------------------------------------
(* The promises.                                                            *)

(* What every step leaves of the stage: a claim takes a queued or a new work, *)
(* and only a claim forgets a cancellation.                                  *)
StageGoesOn ==
    /\ \/ stage'.active = stage.active /\ stage'.cancelling \in {stage.cancelling, stage.active}
       \/ stage'.active = NoWork
       \/ /\ stage.active = NoWork /\ stage'.last = NoCancel
          /\ Pending(stage'.active) \/ stage'.active \notin 1 .. Newest
    /\ orphaned \subseteq orphaned'
    /\ stage.closed => stage'.closed

LEMMA StaysOver ==
    ASSUME TypeInvariant, QueueIsOwned, QueueGoesOn, StageGoesOn, NEW w
    PROVE  (Over(w) => Over(w)') /\ (Silenced(w) => Silenced(w)')
<1>1. Newest \in Nat /\ Newest' \in Nat /\ Newest <= Newest'
  BY QueueFacts DEF QueueGoesOn, TypeInvariant
<1>2. ASSUME w \in 1 .. Newest, ~Pending(w) PROVE w \in 1 .. Newest' /\ ~Pending(w)' /\ w # NoWork
  BY <1>1, <1>2 DEF QueueGoesOn, NoWork
<1>3. ASSUME w \in 1 .. Newest, ~Pending(w)
      PROVE  stage'.active = w => stage.active = w /\ stage'.cancelling \in {stage.cancelling, w}
  BY <1>2, <1>3 DEF StageGoesOn
<1>4. Over(w) => Over(w)'
  BY <1>2, <1>3 DEF Over
<1>5. Silenced(w) => Silenced(w)'
  BY <1>2, <1>3 DEF Silenced, StageGoesOn
<1>6. QED
  BY <1>4, <1>5

LEMMA LastStays ==
    ASSUME VoiceInvariant, StageGoesOn, stage'.last \in {stage.last, NoCancel},
           reported'.completed = reported.completed
    PROVE  LastFits'
<1>1. CASE stage'.last = NoCancel
  BY <1>1 DEF LastFits, NoCancel, NoWork
<1>2. CASE stage'.last = stage.last /\ stage'.last # NoCancel
  <2>1. \/ stage'.active = stage.active /\ stage'.cancelling \in {stage.cancelling, stage.active}
        \/ stage'.active = NoWork
    BY <1>2 DEF StageGoesOn
  <2>2. QED
    BY <1>2, <2>1 DEF LastFits, VoiceInvariant, Promises, StageGoesOn
<1>3. QED
  BY <1>1, <1>2

LEMMA CompletedStay ==
    ASSUME VoiceInvariant, QueueGoesOn, StageGoesOn, reported'.completed = reported.completed
    PROVE  CompletedAreOver'
BY StaysOver DEF CompletedAreOver, VoiceInvariant, Promises

LEMMA FlushedStay ==
    ASSUME VoiceInvariant, QueueGoesOn, StageGoesOn, UNCHANGED flushed,
           \A w \in Work : artifact'[w] = "valid" => artifact[w] = "valid"
    PROVE  FlushedStaySilent'
<1>1. SUFFICES ASSUME NEW w \in flushed
               PROVE  Silenced(w)' /\ (w \in orphaned' \/ artifact'[w] # "valid")
  BY DEF FlushedStaySilent
<1>2. Silenced(w) /\ (w \in orphaned \/ artifact[w] # "valid") /\ w \in Work
  BY DEF VoiceInvariant, Promises, FlushedStaySilent, TypeInvariant, HistoryTypes
<1>3. QED
  BY <1>2, StaysOver DEF StageGoesOn, VoiceInvariant

(* The works a flush has to do with do not change while it runs.              *)
LEMMA ScopeStays ==
    ASSUME TypeInvariant, QueueIsOwned, QueueGoesOn, NEW t \in Controller, FlushFits(t),
           call'[t].known = call[t].known, call'[t].context = call[t].context
    PROVE  Scope(t)' = Scope(t) /\ \A w \in Scope(t) : w \in 1 .. Newest /\ ~Pending(w)'
<1>1. Newest \in Nat /\ call[t].known \in Nat /\ call[t].known <= Newest
  BY QueueFacts DEF TypeInvariant, ThreadTypes, JobRecord, CallRecord, FlushFits
<1>2. \A w \in 1 .. call[t].known : w \in 1 .. Newest /\ contextOf'[w] = contextOf[w]
  BY <1>1 DEF QueueGoesOn
<1>3. Scope(t)' = Scope(t)
  BY <1>2 DEF Scope, Matches
<1>4. QED
  BY <1>2, <1>3 DEF FlushFits, QueueGoesOn, Scope

(* A controller that neither moves nor is signalled keeps what it knows.      *)
LEMMA WaitersStay ==
    ASSUME VoiceInvariant, QueueGoesOn, StageGoesOn, NEW t \in Controller, call'[t] = call[t],
           call[t].event = "live" => stage'.active = stage.active
    PROVE  WaitFits(t)' /\ FlushFits(t)'
<1>1. WaitFits(t) /\ FlushFits(t) /\ TypeInvariant /\ QueueIsOwned
  BY DEF VoiceInvariant, Promises
<1>2. /\ Newest \in Nat /\ Newest' \in Nat /\ Newest <= Newest'
      /\ call[t].known \in Nat
  BY <1>1, QueueFacts DEF QueueGoesOn, TypeInvariant, ThreadTypes, JobRecord, CallRecord
<1>3. Over(call[t].work) => Over(call[t].work)'
  <2>1. \A w : Over(w) => Over(w)'
    BY <1>1, StaysOver
  <2>2. QED
    BY <2>1 DEF Over, Pending
<1>4. WaitFits(t)'
  <2>1. call[t].pc = "waiting" => call[t].work \in 1 .. Newest'
    BY <1>1, <1>2 DEF WaitFits
  <2>2. call[t].event = "live" => stage'.active = call[t].work /\ stage'.cancelling = call[t].work
    BY <1>1 DEF WaitFits, StageGoesOn, NoWork
  <2>3. QED
    BY <1>1, <1>3, <2>1, <2>2 DEF WaitFits, StageGoesOn
<1>5. FlushFits(t)'
  <2>1. Scope(t)' = Scope(t) /\ \A w \in Scope(t) : ~Pending(w)'
    BY <1>1, ScopeStays
  <2>2. \A w \in Scope(t) : Silenced(w) => Silenced(w)'
    BY <1>1, StaysOver
  <2>3. QED
    BY <1>1, <1>2, <2>1, <2>2 DEF FlushFits, StageGoesOn
<1>6. QED
  BY <1>4, <1>5

(* The end of a claim is told to those who wait for it.                      *)
LEMMA WaitersLearn ==
    ASSUME VoiceInvariant, QueueGoesOn, StageGoesOn, NEW how \in {"set", "lost"}, Signal(how),
           stage'.active = NoWork,
           how = "set" => ~Pending(stage.active),
           how = "lost" /\ stage.cancelling = stage.active => stage.active \in orphaned',
           NEW t \in Controller
    PROVE  WaitFits(t)' /\ FlushFits(t)'
<1>1. WaitFits(t) /\ FlushFits(t) /\ TypeInvariant /\ QueueIsOwned
  BY DEF VoiceInvariant, Promises
<1>2. call'[t] = IF call[t].event = "live" THEN [call[t] EXCEPT !.event = how] ELSE call[t]
  BY DEF Signal
<1>3. CASE call[t].event # "live"
  BY <1>2, <1>3, WaitersStay
<1>4. CASE call[t].event = "live"
  <2> DEFINE w == call[t].work
  <2>1. /\ call'[t].pc = call[t].pc /\ call'[t].context = call[t].context /\ call'[t].work = w
        /\ call'[t].known = call[t].known /\ call'[t].flushing = call[t].flushing
        /\ call'[t].event = how
    BY <1>1, <1>2, <1>4 DEF TypeInvariant, ThreadTypes, JobRecord, CallRecord
  <2>2. /\ call[t].pc = "waiting" /\ w \in 1 .. Newest
        /\ stage.active = w /\ stage.cancelling = w
    BY <1>1, <1>4 DEF WaitFits
  <2>3. /\ Newest \in Nat /\ Newest' \in Nat /\ Newest <= Newest'
        /\ call[t].known \in Nat
    BY <1>1, QueueFacts DEF QueueGoesOn, TypeInvariant, ThreadTypes, JobRecord, CallRecord
  <2>4. WaitFits(t)'
    <3>1. CASE how = "set"
      <4>1. ~Pending(w)
        BY <2>2, <3>1
      <4>2. ~Pending(call[t].work)' /\ w # NoWork
        BY <2>1, <2>2, <2>3, <4>1 DEF QueueGoesOn, NoWork, Pending
      <4>3. QED
        BY <2>1, <2>2, <2>3, <3>1, <4>2 DEF WaitFits, Over
    <3>2. CASE how = "lost"
      BY <2>1, <2>2, <2>3, <3>2 DEF WaitFits
    <3>3. QED
      BY <3>1, <3>2
  <2>5. Scope(t)' = Scope(t) /\ \A v \in Scope(t) : ~Pending(v)'
    BY <1>1, <2>1, ScopeStays
  <2>6. \A v \in Scope(t) : Silenced(v) => Silenced(v)'
    BY <1>1, StaysOver
  <2>7. FlushFits(t)'
    BY <1>1, <2>1, <2>2, <2>3, <2>5, <2>6 DEF FlushFits
  <2>8. QED
    BY <2>4, <2>7
<1>5. QED
  BY <1>3, <1>4

-----------------------------------------------------------------------------
(* The steps.                                                               *)

(* Steps that concern no promise: stage and controllers stay as they are.     *)
LEMMA QuietStep ==
    ASSUME VoiceInvariant, QueueGoesOn, ClaimsAreOwned', ThreadTypes',
           stage' \in {stage, [stage EXCEPT !.closed = TRUE]},
           current' \in {NoContext, latest'}, latest' \in 0 .. MaxContexts,
           UNCHANGED <<call, artifact, reported, orphaned, flushed>>
    PROVE  VoiceInvariant'
<1>1. /\ stage'.active = stage.active /\ stage'.cancelling = stage.cancelling
      /\ stage'.last = stage.last /\ (stage.closed => stage'.closed)
  BY DEF VoiceInvariant, TypeInvariant, OwnerTypes
<1>2. StageGoesOn
  BY <1>1 DEF StageGoesOn
<1>3. TypeInvariant'
  <2>1. OwnerTypes' /\ HistoryTypes'
    BY DEF VoiceInvariant, TypeInvariant, OwnerTypes, HistoryTypes
  <2>2. QED
    BY <2>1, QueueIsTyped DEF TypeInvariant
<1>4. LastFits' /\ CompletedAreOver' /\ FlushedStaySilent'
  BY <1>1, <1>2, LastStays, CompletedStay, FlushedStay
<1>5. \A t \in Controller : WaitFits(t)' /\ FlushFits(t)'
  BY <1>1, <1>2, WaitersStay
<1>6. QED
  BY <1>3, <1>4, <1>5 DEF VoiceInvariant, Promises, QueueGoesOn

(* A worker that claims the stage, from the queue or by a start.              *)
LEMMA ClaimStageKeeps ==
    ASSUME VoiceInvariant, QueueGoesOn, ClaimsAreOwned', ThreadTypes', Claimable,
           NEW w \in Work, ClaimStage(w), Pending(w) \/ w \notin 1 .. Newest,
           UNCHANGED <<gate, artifact, call, histories>>
    PROVE  VoiceInvariant'
<1>1. /\ stage.active = NoWork /\ stage'.active = w /\ stage'.last = NoCancel
      /\ stage'.closed = stage.closed
      /\ UNCHANGED <<current, latest, reported, orphaned, flushed>>
  BY DEF Claimable, ClaimStage, VoiceInvariant, TypeInvariant, OwnerTypes, gate, histories
<1>2. StageGoesOn
  BY <1>1 DEF StageGoesOn
<1>3. TypeInvariant'
  <2>1. w \in 0 .. MaxWork /\ NoWork \in 0 .. MaxWork
    BY VoiceAssumption DEF Work, NoWork
  <2>2. stage' = [stage EXCEPT !.active = w, !.cancelling = NoWork, !.last = NoCancel]
    BY DEF ClaimStage
  <2>3. NoCancel \in [work : 0 .. MaxWork, outcome : Outcome \cup {"none"}]
    BY <2>1 DEF NoCancel
  <2>4. OwnerTypes'
    BY <1>1, <2>1, <2>2, <2>3 DEF VoiceInvariant, TypeInvariant, OwnerTypes
  <2>5. HistoryTypes'
    BY <1>1 DEF VoiceInvariant, TypeInvariant, HistoryTypes
  <2>6. QED
    BY <2>4, <2>5, QueueIsTyped DEF TypeInvariant
<1>4. LastFits' /\ CompletedAreOver' /\ FlushedStaySilent'
  BY <1>1, <1>2, LastStays, CompletedStay, FlushedStay
<1>5. \A t \in Controller : WaitFits(t)' /\ FlushFits(t)'
  <2>1. SUFFICES ASSUME NEW t \in Controller PROVE WaitFits(t)' /\ FlushFits(t)'
    OBVIOUS
  <2>2. call[t].event # "live"
    <3>1. WaitFits(t)
      BY DEF VoiceInvariant, Promises
    <3>2. QED
      BY <1>1, <3>1 DEF WaitFits, NoWork
  <2>3. QED
    BY <1>2, <2>2, WaitersStay
<1>6. QED
  BY <1>3, <1>4, <1>5 DEF VoiceInvariant, Promises, QueueGoesOn

(* A worker that leaves the stage.                                           *)
LEMMA LeaveStageKeeps ==
    ASSUME VoiceInvariant, QueueGoesOn, ClaimsAreOwned', ThreadTypes',
           stage' = [stage EXCEPT !.active = NoWork], NEW how \in {"set", "lost"}, Signal(how),
           how = "set" => ~Pending(stage.active),
           how = "lost" /\ stage.cancelling = stage.active => stage.active \in orphaned',
           orphaned \subseteq orphaned', orphaned' \subseteq Work,
           UNCHANGED <<gate, artifact, reported, flushed>>
    PROVE  VoiceInvariant'
<1>1. /\ stage'.active = NoWork /\ stage'.last = stage.last /\ stage'.closed = stage.closed
      /\ UNCHANGED <<current, latest>>
  BY DEF VoiceInvariant, TypeInvariant, OwnerTypes, gate
<1>2. StageGoesOn
  BY <1>1 DEF StageGoesOn
<1>3. TypeInvariant'
  <2>1. NoWork \in 0 .. MaxWork
    BY VoiceAssumption DEF NoWork
  <2>2. OwnerTypes' /\ HistoryTypes'
    BY <1>1, <2>1 DEF VoiceInvariant, TypeInvariant, OwnerTypes, HistoryTypes
  <2>3. QED
    BY <2>2, QueueIsTyped DEF TypeInvariant
<1>4. LastFits' /\ CompletedAreOver' /\ FlushedStaySilent'
  BY <1>1, <1>2, LastStays, CompletedStay, FlushedStay
<1>5. \A t \in Controller : WaitFits(t)' /\ FlushFits(t)'
  BY <1>1, <1>2, WaitersLearn
<1>6. QED
  BY <1>3, <1>4, <1>5 DEF VoiceInvariant, Promises, QueueGoesOn

(* Invalidation makes nothing playable.                                      *)
LEMMA InvalidatedIsTyped ==
    ASSUME NEW artifacts \in [Work -> {"none", "valid", "invalidated"}], NEW c
    PROVE  /\ Invalidated(artifacts, c) \in [Work -> {"none", "valid", "invalidated"}]
           /\ \A w \in Work : Invalidated(artifacts, c)[w] = "valid"
                 => artifacts[w] = "valid" /\ ~(w <= Newest /\ contextOf[w] = c)
BY DEF Invalidated

(* A worker goes on to a new record of its own.                               *)
LEMMA JobMoves ==
    ASSUME ThreadTypes, NEW t \in Worker, NEW next \in JobRecord,
           job' = [job EXCEPT ![t] = next], UNCHANGED call
    PROVE  ThreadTypes'
BY DEF ThreadTypes

(* One lock region decides on a result: a flushed work that is still on the   *)
(* stage is marked as cancelled, and what it brings is invalidated.          *)
LEMMA PublishKeeps ==
    ASSUME VoiceInvariant, NEW t \in Worker, Publish(t)
    PROVE  VoiceInvariant'
<1> DEFINE w == job[t].work
<1>1. /\ TypeInvariant /\ QueueIsOwned /\ ClaimsAreOwned /\ job[t].pc = "running"
      /\ stage.active = w /\ w \in 1 .. Newest /\ w \in Work /\ ~Pending(w)
  <2>1. TypeInvariant /\ QueueIsOwned /\ ClaimsAreOwned /\ job[t].pc = "running"
    BY DEF VoiceInvariant, Publish
  <2>2. JobFits(t) /\ t \in OnStage
    BY <2>1 DEF ClaimsAreOwned, OnStage
  <2>3. QED
    BY <2>1, <2>2, QueueFacts, VoiceAssumption DEF ClaimsAreOwned, JobFits, TypeInvariant, Work
<1>2. UNCHANGED <<pending, boundary, stage, current, latest, contextOf, call, reported, orphaned,
                  flushed>>
  BY DEF Publish, queue, gate, histories
<1>3. QueueGoesOn /\ StageGoesOn
  BY <1>1, <1>2, QueueIsKept DEF StageGoesOn, queue, TypeInvariant
<1>4. ClaimsAreOwned'
  BY <1>1, <1>3, ResultKeepsClaims
<1>5. PICK bound \in {"none", "valid"} :
         artifact' = IF Verdict(w) = "audio" THEN [artifact EXCEPT ![w] = bound]
                     ELSE Invalidated([artifact EXCEPT ![w] = bound], contextOf[w])
  BY DEF Publish
<1>6. artifact \in [Work -> {"none", "valid", "invalidated"}]
  BY <1>1 DEF TypeInvariant, OwnerTypes
<1> DEFINE stored == [artifact EXCEPT ![w] = bound]
<1>7. /\ stored \in [Work -> {"none", "valid", "invalidated"}]
      /\ \A v \in Work : v # w => stored[v] = artifact[v]
  BY <1>6
<1> HIDE DEF stored
<1>8. artifact' = IF Verdict(w) = "audio" THEN stored ELSE Invalidated(stored, contextOf[w])
  BY <1>5 DEF stored
<1>9. /\ artifact' \in [Work -> {"none", "valid", "invalidated"}]
      /\ \A v \in Work : v # w /\ artifact'[v] = "valid" => artifact[v] = "valid"
      /\ artifact'[w] = "valid" => Verdict(w) = "audio"
  BY <1>1, <1>7, <1>8, InvalidatedIsTyped, QueueFacts DEF TypeInvariant
<1>10. TypeInvariant'
  <2>1. OwnerTypes' /\ HistoryTypes'
    BY <1>1, <1>2, <1>9 DEF TypeInvariant, OwnerTypes, HistoryTypes
  <2>2. Verdict(w) \in {"audio", "cancelled", "stale"}
    BY DEF Verdict
  <2>3. ThreadTypes'
    <3> DEFINE next == [job[t] EXCEPT !.pc = "release", !.result = Verdict(w)]
    <3>1. ThreadTypes /\ job[t] \in JobRecord
      BY <1>1 DEF TypeInvariant, ThreadTypes
    <3>2. next \in JobRecord
      BY <2>2, <3>1 DEF JobRecord
    <3>3. job' = [job EXCEPT ![t] = next] /\ UNCHANGED call
      BY <1>2 DEF Publish
    <3> HIDE DEF next
    <3>4. QED
      BY <3>1, <3>2, <3>3, JobMoves
  <2>4. QED
    BY <1>3, <2>1, <2>3, QueueIsTyped DEF TypeInvariant
<1>11. FlushedStaySilent'
  <2>1. SUFFICES ASSUME NEW v \in flushed, v \notin orphaned
                 PROVE  Silenced(v)' /\ artifact'[v] # "valid"
    <3>1. \A v \in orphaned : Silenced(v)'
      BY <1>2 DEF Silenced
    <3>2. QED
      BY <1>2, <3>1 DEF FlushedStaySilent
  <2>2. Silenced(v) /\ artifact[v] # "valid" /\ v \in Work
    BY <1>1, <2>1 DEF VoiceInvariant, Promises, FlushedStaySilent, TypeInvariant, HistoryTypes
  <2>3. Silenced(v)'
    BY <1>1, <1>3, <2>2, StaysOver
  <2>4. v = w => Verdict(w) = "cancelled"
    BY <1>1, <2>1, <2>2 DEF Silenced, Verdict
  <2>5. QED
    BY <1>9, <2>2, <2>3, <2>4
<1>12. LastFits' /\ CompletedAreOver'
  BY <1>2, <1>3, LastStays, CompletedStay
<1>13. \A u \in Controller : WaitFits(u)' /\ FlushFits(u)'
  BY <1>2, <1>3, WaitersStay
<1>14. QED
  BY <1>3, <1>4, <1>10, <1>11, <1>12, <1>13 DEF VoiceInvariant, Promises, QueueGoesOn

LEMMA WorkerKeeps ==
    ASSUME VoiceInvariant, NEW t \in Worker, WorkerStep(t)
    PROVE  VoiceInvariant'
<1>1. TypeInvariant /\ QueueIsOwned /\ ClaimsAreOwned /\ QueueTypes /\ JobFits(t)
  BY DEF VoiceInvariant, TypeInvariant, ClaimsAreOwned
<1>2. ASSUME HandOff(t) PROVE VoiceInvariant'
  <2>1. QueueGoesOn
    BY <1>1, <1>2, QueueIsKept DEF HandOff
  <2>2. ClaimsAreOwned'
    BY <1>1, <1>2, <2>1, HandOffKeepsClaims
  <2>3. Head(pending) \in Work /\ Pending(Head(pending))
    <3>1. Len(pending) \in Nat \ {0} /\ DOMAIN pending = 1 .. Len(pending) /\ Head(pending) = pending[1]
      BY <1>1, <1>2, QueueFacts, HeadTailProperties, LenProperties DEF HandOff
    <3>2. QED
      BY <1>1, <3>1, QueueFacts, LenProperties DEF Pending
  <2>4. ThreadTypes'
    <3> DEFINE w == Head(pending)
               next == [job[t] EXCEPT !.pc = "claiming", !.work = w, !.queued = TRUE]
    <3>1. w \in 0 .. MaxWork
      BY <2>3, VoiceAssumption DEF Work
    <3>2. job' = [job EXCEPT ![t] = next] /\ UNCHANGED call
      BY <1>2 DEF HandOff
    <3>3. ThreadTypes /\ job[t] \in JobRecord
      BY <1>1 DEF TypeInvariant, ThreadTypes
    <3> HIDE DEF w
    <3>4. next \in JobRecord
      BY <3>1, <3>3 DEF JobRecord
    <3> HIDE DEF next
    <3>5. QED
      BY <3>2, <3>3, <3>4, JobMoves
  <2>5. QED
    BY <1>2, <2>1, <2>2, <2>3, <2>4, ClaimStageKeeps DEF HandOff
<1>3. ASSUME ClaimBoundary(t) PROVE VoiceInvariant'
  <2>1. QueueGoesOn /\ ClaimsAreOwned'
    BY <1>1, <1>3, ClaimKeepsClaims
  <2>2. UNCHANGED <<current, latest, artifact, reported, flushed, host>>
    BY <1>3 DEF ClaimBoundary, gate
  <2>3. CASE Claims(t)
    <3>1. ThreadTypes' /\ UNCHANGED <<stage, call, orphaned>>
      <4> DEFINE next == [job[t] EXCEPT !.pc = "running"]
      <4>1. ThreadTypes /\ job[t] \in JobRecord
        BY <1>1 DEF TypeInvariant, ThreadTypes
      <4>2. next \in JobRecord
        BY <4>1 DEF JobRecord
      <4>3. job' = [job EXCEPT ![t] = next] /\ UNCHANGED <<stage, call, orphaned>>
        BY <2>3 DEF Claims
      <4> HIDE DEF next
      <4>4. QED
        BY <4>1, <4>2, <4>3, JobMoves
    <3>2. current' \in {NoContext, latest'} /\ latest' \in 0 .. MaxContexts
      BY <1>1, <2>2 DEF TypeInvariant, OwnerTypes
    <3>3. QED
      BY <2>1, <2>2, <3>1, <3>2, QuietStep
  <2>4. CASE GivesBack(t)
    <3>1. stage.active = job[t].work /\ job[t].work \in 1 .. Newest
      BY <1>1, <1>3 DEF ClaimBoundary, ClaimsAreOwned, OnStage, JobFits
    <3>2. job[t].work \in Work
      BY <1>1, <3>1, QueueFacts, VoiceAssumption DEF Work
    <3>3. /\ orphaned \subseteq orphaned' /\ orphaned' \subseteq Work
          /\ stage.cancelling = stage.active => stage.active \in orphaned'
      BY <1>1, <2>4, <3>1, <3>2 DEF GivesBack, TypeInvariant, HistoryTypes
    <3>4. ThreadTypes'
      BY <1>1, <2>4, VoiceAssumption
         DEF GivesBack, Signal, Idle, NoWork, TypeInvariant, ThreadTypes, JobRecord, CallRecord
    <3>5. QED
      BY <2>1, <2>2, <2>4, <3>3, <3>4, LeaveStageKeeps DEF GivesBack, gate
  <2>5. QED
    BY <1>3, <2>3, <2>4 DEF ClaimBoundary
<1>4. ASSUME Publish(t) PROVE VoiceInvariant'
  BY <1>4, PublishKeeps
<1>5. ASSUME SynthesisFails(t) PROVE VoiceInvariant'
  <2>1. /\ UNCHANGED <<pending, boundary, stage, current, latest, artifact, contextOf, call,
                       reported, orphaned, flushed>>
        /\ ThreadTypes'
    BY <1>1, <1>5 DEF SynthesisFails, queue, gate, histories, TypeInvariant, ThreadTypes, JobRecord, CallRecord
  <2>2. QueueGoesOn
    BY <1>1, <2>1, QueueIsKept DEF queue
  <2>3. ClaimsAreOwned'
    BY <1>1, <1>5, <2>2, ResultKeepsClaims
  <2>4. current' \in {NoContext, latest'} /\ latest' \in 0 .. MaxContexts
    BY <1>1, <2>1 DEF TypeInvariant, OwnerTypes
  <2>5. QED
    BY <2>1, <2>2, <2>3, <2>4, QuietStep
<1>6. ASSUME Release(t) PROVE VoiceInvariant'
  <2>1. QueueGoesOn
    BY <1>1, <1>6, QueueIsKept DEF Release
  <2>2. ClaimsAreOwned'
    BY <1>1, <1>6, <2>1, ReleaseKeepsClaims
  <2>3. stage.active = job[t].work /\ ~Pending(job[t].work)
    BY <1>1, <1>6 DEF Release, ClaimsAreOwned, OnStage, JobFits
  <2>4. ThreadTypes'
    <3>1. Signal("set") /\ job' = [job EXCEPT ![t] = IF @.queued THEN [@ EXCEPT !.pc = "complete"]
                                                    ELSE Idle]
      BY <1>6 DEF Release
    <3>2. job' \in [Worker -> JobRecord]
      BY <1>1, <3>1, VoiceAssumption DEF Idle, NoWork, TypeInvariant, ThreadTypes, JobRecord
    <3>3. call' \in [Controller -> CallRecord]
      BY <1>1, <3>1 DEF Signal, TypeInvariant, ThreadTypes, CallRecord
    <3>4. QED
      BY <3>2, <3>3 DEF ThreadTypes
  <2>5. UNCHANGED <<gate, artifact, reported, flushed>> /\ orphaned' = orphaned /\ orphaned \subseteq Work
    BY <1>1, <1>6 DEF Release, histories, TypeInvariant, HistoryTypes
  <2>6. QED
    BY <1>6, <2>1, <2>2, <2>3, <2>4, <2>5, LeaveStageKeeps DEF Release
<1>7. ASSUME Complete(t) PROVE VoiceInvariant'
  <2>1. QueueGoesOn /\ ClaimsAreOwned'
    BY <1>1, <1>7, CompleteKeepsClaims
  <2>2. /\ UNCHANGED <<stage, current, latest, artifact, call, reported, orphaned, flushed>>
        /\ ThreadTypes'
    BY <1>1, <1>7, VoiceAssumption DEF Complete, gate, histories, Idle, NoWork, TypeInvariant, ThreadTypes, JobRecord, CallRecord
  <2>3. current' \in {NoContext, latest'} /\ latest' \in 0 .. MaxContexts
    BY <1>1, <2>2 DEF TypeInvariant, OwnerTypes
  <2>4. QED
    BY <2>1, <2>2, <2>3, QuietStep
<1>8. QED
  BY <1>2, <1>3, <1>4, <1>5, <1>6, <1>7 DEF WorkerStep

(* A controller takes a step: the others stay where they are.                 *)
LEMMA ControllerKeeps ==
    ASSUME VoiceInvariant, NEW t \in Controller, QueueGoesOn, StageGoesOn, ClaimsAreOwned',
           OwnerTypes', ThreadTypes', HistoryTypes', job' = job,
           stage'.active = stage.active,
           \A u \in Controller : u # t => call'[u] = call[u],
           LastFits', CompletedAreOver', FlushedStaySilent', WaitFits(t)', FlushFits(t)'
    PROVE  VoiceInvariant'
<1>1. TypeInvariant'
  BY QueueIsTyped DEF VoiceInvariant, TypeInvariant
<1>2. \A u \in Controller : WaitFits(u)' /\ FlushFits(u)'
  BY WaitersStay
<1>3. QED
  BY <1>1, <1>2 DEF VoiceInvariant, Promises, QueueGoesOn

(* A flush starts when what it has to silence is queued no more.              *)
LEMMA FlushKeeps ==
    ASSUME VoiceInvariant, NEW t \in Flusher, NEW c \in 0 .. latest, Flush(t, c)
    PROVE  VoiceInvariant'
<1> DEFINE new == [call[t] EXCEPT !.pc = "look", !.context = c, !.flushing = TRUE, !.known = Newest]
<1>1. /\ TypeInvariant /\ QueueIsOwned /\ ClaimsAreOwned /\ QueueTypes /\ t \in Controller
      /\ WaitFits(t) /\ FlushFits(t)
  BY DEF VoiceInvariant, Promises, TypeInvariant, Controller
<1>2. /\ call[t].pc = "idle" /\ Clear(c) /\ QueueLockFree /\ call' = [call EXCEPT ![t] = new]
      /\ UNCHANGED <<stage, current, latest, artifact, contextOf, job, reported, orphaned, flushed>>
  BY DEF Flush, Clear, gate, histories
<1>3. /\ QueueGoesOn /\ boundary'.inFlight = boundary.inFlight
      /\ \A w \in 1 .. Newest : Matches(w, c) => ~Pending(w)'
  BY <1>1, <1>2, ClearKeepsQueue
<1>4. StageGoesOn
  BY <1>2 DEF StageGoesOn
<1>5. ClaimsAreOwned'
  BY <1>1, <1>2, <1>3, WorkersStay
<1>6. Newest \in 0 .. MaxWork /\ c \in 0 .. MaxContexts
  <2>1. latest \in 0 .. MaxContexts
    BY <1>1 DEF TypeInvariant, OwnerTypes
  <2>2. QED
    BY <1>1, <2>1, QueueFacts, VoiceAssumption
<1>7. /\ call'[t] = new /\ new.pc = "look" /\ new.context = c /\ new.known = Newest /\ new.event = "none"
      /\ \A u \in Controller : u # t => call'[u] = call[u]
  BY <1>1, <1>2 DEF TypeInvariant, ThreadTypes, JobRecord, CallRecord, FlushFits, NoCall
<1>8. OwnerTypes' /\ HistoryTypes' /\ ThreadTypes'
  <2>1. OwnerTypes' /\ HistoryTypes'
    BY <1>1, <1>2 DEF TypeInvariant, OwnerTypes, HistoryTypes
  <2>2. new \in CallRecord
    BY <1>1, <1>6 DEF TypeInvariant, ThreadTypes, CallRecord
  <2>3. ThreadTypes'
    BY <1>1, <1>2, <2>2 DEF TypeInvariant, ThreadTypes
  <2>4. QED
    BY <2>1, <2>3
<1> HIDE DEF new
<1>9. WaitFits(t)'
  BY <1>7 DEF WaitFits
<1>10. FlushFits(t)'
  <2>1. Newest' = Newest /\ Scope(t)' = {w \in 1 .. Newest : Matches(w, c)}
    BY <1>2, <1>7 DEF Newest, Scope, Matches
  <2>2. QED
    BY <1>3, <1>6, <1>7, <2>1 DEF FlushFits
<1>11. LastFits' /\ CompletedAreOver' /\ FlushedStaySilent'
  BY <1>2, <1>3, <1>4, LastStays, CompletedStay, FlushedStay
<1>12. QED
  BY <1>1, <1>2, <1>3, <1>4, <1>5, <1>7, <1>8, <1>9, <1>10, <1>11, ControllerKeeps

(* A controller that is through has nothing left to know or to silence.       *)
LEMMA CallEnds ==
    ASSUME VoiceInvariant, QueueGoesOn, NEW t \in Controller, call'[t] = NoCall
    PROVE  WaitFits(t)' /\ FlushFits(t)'
<1>1. /\ call'[t].pc = "idle" /\ call'[t].known = 0 /\ call'[t].event = "none"
  BY DEF NoCall
<1>2. Newest' \in Nat
  BY QueueFacts DEF QueueGoesOn, VoiceInvariant, TypeInvariant
<1>3. Scope(t)' = {}
  BY <1>1 DEF Scope
<1>4. WaitFits(t)'
  BY <1>1 DEF WaitFits
<1>5. FlushFits(t)'
  BY <1>1, <1>2, <1>3 DEF FlushFits
<1>6. QED
  BY <1>4, <1>5

(* What is not cancelled after the look is neither queued nor active.         *)
LEMMA LookKeeps ==
    ASSUME VoiceInvariant, NEW t \in Controller, LookAtActive(t)
    PROVE  VoiceInvariant'
<1> DEFINE active == stage.active
           c == call[t].context
           target == IF c = NoContext /\ active # NoWork THEN contextOf[active] ELSE c
           new == IF active # NoWork /\ Matches(active, c)
                    THEN [call[t] EXCEPT !.pc = "cancel", !.context = target, !.work = active]
                  ELSE IF target # NoContext THEN [call[t] EXCEPT !.pc = "invalidate"]
                  ELSE NoCall
<1>1. /\ TypeInvariant /\ QueueIsOwned /\ ClaimsAreOwned /\ QueueTypes
      /\ WaitFits(t) /\ FlushFits(t)
  BY DEF VoiceInvariant, Promises, TypeInvariant
<1>2. /\ call[t].pc = "look" /\ call' = [call EXCEPT ![t] = new]
      /\ UNCHANGED <<pending, boundary, stage, current, latest, artifact, contextOf, job, reported,
                     orphaned, flushed>>
  BY DEF LookAtActive, queue, gate, histories
<1>3. QueueGoesOn /\ StageGoesOn /\ ClaimsAreOwned'
  <2>1. QueueGoesOn
    BY <1>1, <1>2, QueueIsKept DEF queue
  <2>2. QED
    BY <1>1, <1>2, <2>1, WorkersStay DEF StageGoesOn
<1>4. active # NoWork => active \in 1 .. Newest /\ contextOf[active] \in Context
  BY <1>1, QueueFacts, LenProperties DEF ClaimsAreOwned, OnStage, JobFits, NoWork
<1>5. active \in 0 .. MaxWork /\ target \in 0 .. MaxContexts
  BY <1>1, <1>4, VoiceAssumption DEF TypeInvariant, OwnerTypes, ThreadTypes, JobRecord, CallRecord, Context
<1>6. /\ call'[t] = new /\ \A u \in Controller : u # t => call'[u] = call[u]
  BY <1>1, <1>2 DEF TypeInvariant, ThreadTypes, JobRecord, CallRecord
<1>7. OwnerTypes' /\ HistoryTypes' /\ ThreadTypes'
  <2>1. OwnerTypes' /\ HistoryTypes'
    BY <1>1, <1>2 DEF TypeInvariant, OwnerTypes, HistoryTypes
  <2>2. NoCall \in CallRecord
    BY VoiceAssumption DEF NoCall, NoContext, NoWork, CallRecord
  <2>3. call[t] \in CallRecord
    BY <1>1 DEF TypeInvariant, ThreadTypes
  <2> HIDE DEF active, target
  <2>4. new \in CallRecord
    BY <1>5, <2>2, <2>3 DEF CallRecord
  <2> HIDE DEF new
  <2>5. ThreadTypes'
    BY <1>1, <1>2, <2>4 DEF TypeInvariant, ThreadTypes
  <2>6. QED
    BY <2>1, <2>5
<1>8. call[t].event = "none" /\ Newest \in Nat /\ call[t].known \in Nat /\ call[t].known <= Newest
  BY <1>1, <1>2, QueueFacts DEF WaitFits, FlushFits, TypeInvariant, ThreadTypes, JobRecord, CallRecord
<1>9. WaitFits(t)' /\ FlushFits(t)'
  <2>1. CASE active # NoWork /\ Matches(active, c)
    <3>1. new = [call[t] EXCEPT !.pc = "cancel", !.context = target, !.work = active]
      BY <2>1
    <3>2. /\ call'[t].pc = "cancel" /\ call'[t].context = contextOf[active]
          /\ call'[t].work = active /\ call'[t].known = call[t].known /\ call'[t].event = "none"
          /\ call'[t].flushing = call[t].flushing
      BY <1>1, <1>6, <1>8, <2>1, <3>1 DEF TypeInvariant, ThreadTypes, JobRecord, CallRecord, Matches
    <3>3. contextOf[active] # NoContext
      BY <1>4, <2>1, VoiceAssumption DEF Context, NoContext
    <3>4. Scope(t)' \subseteq Scope(t)
      BY <1>2, <2>1, <3>2, <3>3 DEF Scope, Matches
    <3>5. \A w \in Scope(t)' : ~Pending(w)' /\ (w = active \/ Silenced(w)')
      BY <1>1, <1>2, <1>8, <3>4, QueueFacts DEF FlushFits, Silenced, Pending, Scope, Newest
    <3>6. WaitFits(t)'
      BY <3>2 DEF WaitFits
    <3>7. FlushFits(t)'
      BY <1>2, <1>8, <2>1, <3>2, <3>3, <3>5 DEF FlushFits, Newest
    <3>8. QED
      BY <3>6, <3>7
  <2>2. CASE ~(active # NoWork /\ Matches(active, c)) /\ target # NoContext
    <3>1. call'[t] = [call[t] EXCEPT !.pc = "invalidate"]
      BY <1>6, <2>2
    <3>2. /\ call'[t].pc = "invalidate" /\ call'[t].context = c
          /\ call'[t].known = call[t].known /\ call'[t].event = "none"
      BY <1>1, <1>8, <3>1 DEF TypeInvariant, ThreadTypes, JobRecord, CallRecord
    <3>3. Scope(t)' = Scope(t) /\ c # NoContext
      BY <1>2, <2>2, <3>2 DEF Scope, Matches
    <3>4. \A w \in Scope(t) : w # active
      BY <1>8, <2>2 DEF Scope, NoWork
    <3>5. \A w \in Scope(t) : ~Pending(w)' /\ Silenced(w)'
      BY <1>1, <1>2, <1>8, <3>4 DEF FlushFits, Silenced, Pending, Scope, Newest
    <3>6. QED
      BY <1>2, <1>8, <3>2, <3>3, <3>5 DEF WaitFits, FlushFits, Newest
  <2>3. CASE ~(active # NoWork /\ Matches(active, c)) /\ target = NoContext
    <3>1. call'[t] = NoCall
      BY <1>6, <2>3
    <3> HIDE DEF new
    <3>2. QED
      BY <1>3, <3>1, CallEnds
  <2>4. QED
    BY <2>1, <2>2, <2>3
<1>10. LastFits' /\ CompletedAreOver' /\ FlushedStaySilent'
  BY <1>2, <1>3, LastStays, CompletedStay, FlushedStay
<1>11. QED
  BY <1>2, <1>3, <1>6, <1>7, <1>9, <1>10, ControllerKeeps

(* The end of a flush: all it has to do with is silenced and not playable.    *)
LEMMA InvalidateKeeps ==
    ASSUME VoiceInvariant, NEW t \in Controller, InvalidateCompleted(t)
    PROVE  VoiceInvariant'
<1> DEFINE c == call[t].context
           dealtWith == {w \in 1 .. call[t].known : contextOf[w] = c}
<1>1. /\ TypeInvariant /\ QueueIsOwned /\ ClaimsAreOwned /\ QueueTypes /\ FlushFits(t)
  BY DEF VoiceInvariant, Promises, TypeInvariant
<1>2. /\ call[t].pc = "invalidate" /\ call' = [call EXCEPT ![t] = NoCall]
      /\ artifact' = Invalidated(artifact, c)
      /\ flushed' = IF stage.closed THEN flushed ELSE flushed \cup dealtWith
      /\ UNCHANGED <<pending, boundary, stage, current, latest, contextOf, job, reported, orphaned>>
  BY DEF InvalidateCompleted, queue, gate
<1>3. QueueGoesOn /\ StageGoesOn /\ ClaimsAreOwned'
  <2>1. QueueGoesOn
    BY <1>1, <1>2, QueueIsKept DEF queue
  <2>2. QED
    BY <1>1, <1>2, <2>1, WorkersStay DEF StageGoesOn
<1>4. /\ Newest \in 0 .. MaxWork /\ call[t].known \in Nat /\ call[t].known <= Newest
      /\ artifact \in [Work -> {"none", "valid", "invalidated"}]
  BY <1>1, QueueFacts DEF FlushFits, TypeInvariant, OwnerTypes, ThreadTypes, JobRecord, CallRecord
<1>5. /\ artifact' \in [Work -> {"none", "valid", "invalidated"}]
      /\ \A w \in Work : artifact'[w] = "valid"
            => artifact[w] = "valid" /\ ~(w <= Newest /\ contextOf[w] = c)
  BY <1>2, <1>4, InvalidatedIsTyped
<1>6. dealtWith \subseteq Work /\ \A w \in dealtWith : w <= Newest /\ contextOf[w] = c
  BY <1>4, VoiceAssumption DEF Work
<1>7. ~stage.closed => \A w \in dealtWith : Silenced(w)'
  <2>1. SUFFICES ASSUME ~stage.closed, NEW w \in dealtWith PROVE Silenced(w)'
    OBVIOUS
  <2>2. w \in Scope(t)
    BY DEF Scope, Matches
  <2>3. Silenced(w)
    BY <1>1, <1>2, <2>1, <2>2 DEF FlushFits
  <2> HIDE DEF dealtWith
  <2>4. QED
    BY <1>1, <1>3, <2>3, StaysOver
<1> HIDE DEF dealtWith
<1>8. OwnerTypes' /\ HistoryTypes' /\ ThreadTypes'
  <2>1. OwnerTypes' /\ HistoryTypes'
    BY <1>1, <1>2, <1>5, <1>6 DEF TypeInvariant, OwnerTypes, HistoryTypes
  <2>2. NoCall \in CallRecord
    BY VoiceAssumption DEF NoCall, NoContext, NoWork, CallRecord
  <2>3. ThreadTypes'
    BY <1>1, <1>2, <2>2 DEF TypeInvariant, ThreadTypes
  <2>4. QED
    BY <2>1, <2>3
<1>9. /\ call'[t] = NoCall /\ \A u \in Controller : u # t => call'[u] = call[u]
  BY <1>1, <1>2 DEF TypeInvariant, ThreadTypes
<1>10. FlushedStaySilent'
  <2>1. ASSUME NEW w \in flushed
        PROVE  Silenced(w)' /\ (w \in orphaned' \/ artifact'[w] # "valid")
    <3>1. Silenced(w) /\ (w \in orphaned \/ artifact[w] # "valid") /\ w \in Work
      BY <1>1 DEF VoiceInvariant, Promises, FlushedStaySilent, TypeInvariant, HistoryTypes
    <3>2. QED
      BY <1>1, <1>2, <1>3, <1>5, <3>1, StaysOver
  <2>2. ASSUME NEW w \in dealtWith, ~stage.closed
        PROVE  Silenced(w)' /\ (w \in orphaned' \/ artifact'[w] # "valid")
    BY <1>5, <1>6, <1>7, <2>2
  <2>3. QED
    BY <1>2, <2>1, <2>2 DEF FlushedStaySilent
<1>11. LastFits' /\ CompletedAreOver'
  BY <1>2, <1>3, LastStays, CompletedStay
<1>12. WaitFits(t)' /\ FlushFits(t)'
  BY <1>3, <1>9, CallEnds
<1>13. QED
  BY <1>2, <1>3, <1>8, <1>9, <1>10, <1>11, <1>12, ControllerKeeps

(* Who asks for a cancel: a caller, or a flush for what it found active.      *)
Asks(t, c, w) ==
    \/ call[t].pc = "idle" /\ c \in 1 .. latest
    \/ call[t].pc = "cancel" /\ c = call[t].context /\ w = call[t].work

(* A cancel returns: if a flush asked for it, nothing in its scope is left to *)
(* be heard, unless the stage was closed.                                    *)
LEMMA CancelEnds ==
    ASSUME VoiceInvariant, QueueGoesOn, NEW t \in Controller,
           call' = [call EXCEPT ![t] = IF @.flushing THEN [@ EXCEPT !.pc = "invalidate", !.work = NoWork,
                                                              !.event = "none"]
                                       ELSE NoCall],
           call[t].pc \in {"idle", "cancel", "waiting"},
           \A w \in Scope(t) : stage'.closed \/ Silenced(w)'
    PROVE  /\ ThreadTypes' \/ job' # job
           /\ \A u \in Controller : u # t => call'[u] = call[u]
           /\ WaitFits(t)' /\ FlushFits(t)'
<1>1. /\ TypeInvariant /\ QueueIsOwned /\ QueueTypes /\ WaitFits(t) /\ FlushFits(t)
      /\ call \in [Controller -> CallRecord] /\ job \in [Worker -> JobRecord]
  BY DEF VoiceInvariant, Promises, TypeInvariant, ThreadTypes
<1> DEFINE next == [call[t] EXCEPT !.pc = "invalidate", !.work = NoWork, !.event = "none"]
<1>2. NoCall \in CallRecord /\ next \in CallRecord
  <2>1. NoCall \in CallRecord
    BY VoiceAssumption DEF NoCall, NoContext, NoWork, CallRecord
  <2>2. call[t] \in CallRecord /\ NoWork \in 0 .. MaxWork
    BY <1>1, VoiceAssumption DEF NoWork
  <2>3. next \in CallRecord
    BY <2>2 DEF CallRecord
  <2>4. QED
    BY <2>1, <2>3
<1>3. /\ next.pc = "invalidate" /\ next.event = "none" /\ next.context = call[t].context
      /\ next.known = call[t].known
  BY <1>1 DEF CallRecord
<1>4. /\ call' = [call EXCEPT ![t] = IF call[t].flushing THEN next ELSE NoCall]
      /\ call'[t] = IF call[t].flushing THEN next ELSE NoCall
      /\ \A u \in Controller : u # t => call'[u] = call[u]
  BY <1>1
<1> HIDE DEF next
<1>5. ThreadTypes' \/ job' # job
  BY <1>1, <1>2, <1>4 DEF ThreadTypes
<1>6. CASE ~call[t].flushing
  BY <1>4, <1>5, <1>6, CallEnds
<1>7. CASE call[t].flushing
  <2>1. call'[t] = next /\ call[t].pc \in {"cancel", "waiting"}
    BY <1>1, <1>4, <1>7 DEF FlushFits, NoCall
  <2>2. Scope(t)' = Scope(t) /\ \A w \in Scope(t) : ~Pending(w)'
    BY <1>1, <1>3, <2>1, ScopeStays
  <2>3. WaitFits(t)'
    BY <1>3, <2>1 DEF WaitFits
  <2>4. call[t].known \in Nat /\ Newest \in Nat /\ Newest' \in Nat /\ Newest <= Newest'
    BY <1>1, QueueFacts DEF QueueGoesOn, CallRecord
  <2>5. FlushFits(t)'
    BY <1>1, <1>3, <2>1, <2>2, <2>4 DEF FlushFits
  <2>6. QED
    BY <1>4, <1>5, <2>3, <2>5
<1>8. QED
  BY <1>6, <1>7

(* A cancel that answers at once: the work is not active, or it is barred by  *)
(* the cancel whose result is repeated.                                      *)
LEMMA AnswersKeeps ==
    ASSUME VoiceInvariant, NEW t \in Controller, NEW c, NEW w, Asks(t, c, w), AnswersAtOnce(t, c, w)
    PROVE  VoiceInvariant'
<1> DEFINE given == IF ~stage.closed /\ GivenBefore(c, w) THEN stage.last ELSE NoCancel
<1>1. /\ TypeInvariant /\ QueueIsOwned /\ ClaimsAreOwned /\ QueueTypes
      /\ FlushFits(t) /\ LastFits
  BY DEF VoiceInvariant, Promises, TypeInvariant
<1>2. /\ CancelReturns(t, given)
      /\ UNCHANGED <<pending, boundary, stage, current, latest, artifact, contextOf, job, orphaned,
                     flushed>>
  BY DEF AnswersAtOnce, CancelReturns, queue, gate
<1>3. QueueGoesOn /\ StageGoesOn /\ ClaimsAreOwned'
  <2>1. QueueGoesOn
    BY <1>1, <1>2, QueueIsKept DEF queue
  <2>2. QED
    BY <1>1, <1>2, <2>1, WorkersStay DEF StageGoesOn
<1>4. given \in {stage.last, NoCancel}
  OBVIOUS
<1> HIDE DEF given
<1>5. reported' \in [Outcome -> SUBSET Work] /\ reported'.completed = reported.completed
  <2>1. reported \in [Outcome -> SUBSET Work] /\ "completed" \in Outcome
    BY <1>1 DEF TypeInvariant, HistoryTypes, Outcome
  <2>2. CASE given = NoCancel
    BY <1>2, <2>1, <2>2 DEF CancelReturns
  <2>3. CASE given # NoCancel
    <3>1. reported' = [reported EXCEPT ![given.outcome] = @ \cup {given.work}]
      BY <1>2, <2>3 DEF CancelReturns
    <3>2. given = stage.last /\ given.work # NoWork /\ given.outcome \in Outcome
      BY <1>1, <1>4, <2>3 DEF LastFits
    <3>3. given.work \in Work
      BY <1>1, <3>2, VoiceAssumption DEF TypeInvariant, OwnerTypes, Work, NoWork
    <3>4. given.outcome = "completed" => given.work \in reported.completed
      BY <1>1, <3>2 DEF LastFits
    <3>5. QED
      BY <2>1, <3>1, <3>2, <3>3, <3>4
  <2>4. QED
    BY <2>2, <2>3
<1>6. \A v \in Scope(t) : stage'.closed \/ Silenced(v)'
  <2>1. SUFFICES ASSUME NEW v \in Scope(t), ~stage.closed PROVE Silenced(v)
    <3>1. \A v : Silenced(v) => Silenced(v)'
      BY <1>1, <1>3, StaysOver
    <3>2. QED
      BY <1>2, <3>1
  <2>2. call[t].pc = "cancel" /\ c = call[t].context /\ w = call[t].work
    <3>1. call[t].pc = "idle" => Scope(t) = {}
      BY <1>1 DEF FlushFits, NoCall, Scope
    <3>2. QED
      BY <2>1, <3>1 DEF Asks
  <2>3. CASE v # w
    BY <1>1, <2>1, <2>2, <2>3 DEF FlushFits
  <2>4. CASE v = w
    <3>1. c # NoContext /\ w # NoWork /\ contextOf[w] = c /\ ~Pending(w) /\ w \in 1 .. Newest
      <4>1. call[t].known \in Nat /\ call[t].known <= Newest /\ Newest \in Nat
        BY <1>1, QueueFacts DEF FlushFits, TypeInvariant, ThreadTypes, CallRecord
      <4>2. QED
        BY <1>1, <2>2, <2>4, <4>1 DEF FlushFits, Scope, Matches
    <3>2. CASE stage.active # w
      BY <2>4, <3>1, <3>2 DEF Silenced
    <3>3. CASE stage.active = w
      <4>1. IsActive(c, w)
        BY <3>1, <3>3 DEF IsActive
      <4>2. stage.last.work = stage.active
        BY <2>1, <3>1, <3>3, <4>1 DEF AnswersAtOnce, GivenBefore
      <4>3. QED
        BY <1>1, <2>4, <3>1, <3>3, <4>2 DEF LastFits, Silenced
    <3>4. QED
      BY <3>2, <3>3
  <2>5. QED
    BY <2>3, <2>4
<1>7. /\ ThreadTypes' /\ WaitFits(t)' /\ FlushFits(t)'
      /\ \A u \in Controller : u # t => call'[u] = call[u]
  <2>1. call[t].pc \in {"idle", "cancel", "waiting"}
    BY DEF Asks
  <2>2. QED
    BY <1>2, <1>3, <1>6, <2>1, CancelEnds DEF CancelReturns
<1>8. OwnerTypes' /\ HistoryTypes'
  BY <1>1, <1>2, <1>5 DEF TypeInvariant, OwnerTypes, HistoryTypes
<1>9. LastFits' /\ CompletedAreOver' /\ FlushedStaySilent'
  BY <1>2, <1>3, <1>5, LastStays, CompletedStay, FlushedStay
<1>10. QED
  BY <1>2, <1>3, <1>7, <1>8, <1>9, ControllerKeeps

(* A cancel that sets the barrier, and waits for the work to leave the stage. *)
LEMMA RequestsKeeps ==
    ASSUME VoiceInvariant, NEW t \in Controller, NEW c, NEW w, Asks(t, c, w), RequestsCancel(t, c, w)
    PROVE  VoiceInvariant'
<1> DEFINE active == stage.active
           new == [call[t] EXCEPT !.pc = "waiting", !.context = c, !.work = active, !.event = "live"]
<1>1. /\ TypeInvariant /\ QueueIsOwned /\ ClaimsAreOwned /\ QueueTypes /\ FlushFits(t)
      /\ call[t] \in CallRecord
  BY DEF VoiceInvariant, Promises, TypeInvariant, ThreadTypes
<1>2. /\ active # NoWork /\ w \in {NoWork, active}
      /\ stage' = [stage EXCEPT !.cancelling = active] /\ artifact' = Invalidated(artifact, c)
      /\ call' = [call EXCEPT ![t] = new]
      /\ UNCHANGED <<pending, boundary, current, latest, contextOf, job, reported, orphaned, flushed>>
  BY DEF RequestsCancel, IsActive, queue, gate, histories
<1>3. /\ stage'.active = active /\ stage'.cancelling = active /\ stage'.last = stage.last
      /\ stage'.closed = stage.closed
  BY <1>1, <1>2 DEF TypeInvariant, OwnerTypes
<1>4. QueueGoesOn /\ StageGoesOn /\ ClaimsAreOwned'
  <2>1. QueueGoesOn
    BY <1>1, <1>2, QueueIsKept DEF queue
  <2>2. QED
    BY <1>1, <1>2, <1>3, <2>1, WorkersStay DEF StageGoesOn
<1>5. /\ active \in 1 .. Newest /\ Newest \in 0 .. MaxWork /\ Newest' = Newest
      /\ call[t].known \in Nat /\ call[t].known <= Newest
  <2>1. active \in 1 .. Newest
    BY <1>1, <1>2 DEF ClaimsAreOwned, OnStage, JobFits, NoWork
  <2>2. Newest \in 0 .. MaxWork /\ Newest' = Newest
    BY <1>1, <1>2, QueueFacts DEF Newest
  <2>3. call[t].known \in Nat
    BY <1>1 DEF CallRecord
  <2>4. call[t].known <= Newest
    BY <1>1 DEF FlushFits
  <2>5. QED
    BY <2>1, <2>2, <2>3, <2>4
<1>6. c \in 1 .. MaxContexts
  BY <1>1, VoiceAssumption
     DEF Asks, FlushFits, NoContext, CallRecord, TypeInvariant, OwnerTypes
<1>7. /\ artifact' \in [Work -> {"none", "valid", "invalidated"}]
      /\ \A v \in Work : artifact'[v] = "valid" => artifact[v] = "valid"
  BY <1>1, <1>2, InvalidatedIsTyped DEF TypeInvariant, OwnerTypes
<1>8. /\ call'[t] = new /\ new \in CallRecord
      /\ new.pc = "waiting" /\ new.context = c /\ new.work = active /\ new.event = "live"
      /\ new.known = call[t].known
      /\ \A u \in Controller : u # t => call'[u] = call[u]
  <2>1. active \in 0 .. MaxWork /\ c \in 0 .. MaxContexts
    BY <1>5, <1>6, VoiceAssumption
  <2> HIDE DEF active
  <2>2. /\ new \in CallRecord
        /\ new.pc = "waiting" /\ new.context = c /\ new.work = active /\ new.event = "live"
        /\ new.known = call[t].known
    BY <1>1, <2>1 DEF CallRecord
  <2> HIDE DEF new
  <2>3. QED
    BY <1>1, <1>2, <2>2 DEF TypeInvariant, ThreadTypes
<1> HIDE DEF new
<1>9. OwnerTypes' /\ HistoryTypes' /\ ThreadTypes'
  <2>1. OwnerTypes'
    BY <1>1, <1>2, <1>7 DEF TypeInvariant, OwnerTypes
  <2>2. HistoryTypes'
    BY <1>1, <1>2 DEF TypeInvariant, HistoryTypes
  <2>3. ThreadTypes'
    BY <1>1, <1>2, <1>8 DEF TypeInvariant, ThreadTypes
  <2>4. QED
    BY <2>1, <2>2, <2>3
<1>10. WaitFits(t)'
  BY <1>3, <1>5, <1>8 DEF WaitFits
<1>11. FlushFits(t)'
  <2>1. \A v \in Scope(t)' : v \in 1 .. Newest /\ ~Pending(v) /\ (v = active \/ Silenced(v))
    <3>1. CASE call[t].pc = "idle"
      <4>1. call[t].known = 0
        BY <1>1, <3>1 DEF FlushFits, NoCall
      <4>2. QED
        BY <1>8, <4>1 DEF Scope
    <3>2. CASE call[t].pc = "cancel" /\ c = call[t].context /\ w = call[t].work
      <4>1. Scope(t)' = Scope(t)
        BY <1>2, <1>8, <3>2 DEF Scope, Matches
      <4>2. w = active
        BY <1>1, <1>2, <3>2 DEF FlushFits
      <4>3. QED
        BY <1>1, <1>5, <3>2, <4>1, <4>2 DEF FlushFits, Scope
    <3>3. QED
      BY <3>1, <3>2 DEF Asks
  <2>2. \A v \in Scope(t)' : ~Pending(v)' /\ Silenced(v)'
    <3>1. \A v : Silenced(v) => Silenced(v)'
      BY <1>1, <1>4, StaysOver
    <3>2. \A v : Pending(v)' <=> Pending(v)
      BY <1>2 DEF Pending
    <3>3. \A v : v = active /\ ~Pending(v) => Silenced(v)'
      BY <1>3, <1>5, <3>2 DEF Silenced
    <3>4. QED
      BY <2>1, <3>1, <3>2, <3>3
  <2>3. QED
    BY <1>5, <1>6, <1>8, <2>2 DEF FlushFits, NoContext
<1>12. LastFits' /\ CompletedAreOver' /\ FlushedStaySilent'
  BY <1>2, <1>3, <1>4, <1>7, LastStays, CompletedStay, FlushedStay
<1>13. QED
  BY <1>2, <1>3, <1>4, <1>8, <1>9, <1>10, <1>11, <1>12, ControllerKeeps

(* The end of the wait. A result says that the work is over only after the    *)
(* work has left the stage; another's result is repeated.                    *)
LEMMA ReportKeeps ==
    ASSUME VoiceInvariant, NEW t \in Controller, Report(t)
    PROVE  VoiceInvariant'
<1> DEFINE w == call[t].work
<1>1. /\ TypeInvariant /\ QueueIsOwned /\ ClaimsAreOwned /\ QueueTypes
      /\ WaitFits(t) /\ FlushFits(t) /\ LastFits /\ CompletedAreOver
      /\ call[t] \in CallRecord /\ call[t].pc = "waiting"
  BY DEF VoiceInvariant, Promises, TypeInvariant, ThreadTypes, Report
<1>2. w \in 1 .. Newest /\ w # NoWork /\ w \in Work /\ w \in 0 .. MaxWork
  BY <1>1, QueueFacts, VoiceAssumption DEF WaitFits, Work, NoWork
<1>3. PICK completed \in BOOLEAN :
         /\ completed => call[t].event = "set"
         /\ LET result == [work |-> w, outcome |-> IF completed THEN "completed" ELSE "timed_out"]
                given == IF stage.last.work = w THEN stage.last ELSE result
            IN  stage' = [stage EXCEPT !.last = given] /\ CancelReturns(t, given)
  BY DEF Report
<1> DEFINE outcome == IF completed THEN "completed" ELSE "timed_out"
           given == IF stage.last.work = w THEN stage.last ELSE [work |-> w, outcome |-> outcome]
<1>4. /\ stage' = [stage EXCEPT !.last = given] /\ CancelReturns(t, given)
      /\ UNCHANGED <<pending, boundary, current, latest, artifact, contextOf, job, orphaned, flushed>>
  BY <1>3 DEF Report, CancelReturns, queue, gate
<1>5. outcome \in Outcome /\ (outcome = "completed" => call[t].event = "set")
  BY <1>3 DEF Outcome
<1> HIDE DEF outcome
<1>6. /\ given.work = w /\ given # NoCancel /\ given.outcome \in Outcome
      /\ given \in [work : 0 .. MaxWork, outcome : Outcome \cup {"none"}]
      /\ given.outcome = "completed" => w \in reported.completed \/ call[t].event = "set"
  <2>1. CASE stage.last.work = w
    <3>1. given = stage.last
      BY <2>1
    <3>2. stage.last \in [work : 0 .. MaxWork, outcome : Outcome \cup {"none"}]
      BY <1>1 DEF TypeInvariant, OwnerTypes
    <3> HIDE DEF given, w
    <3>3. given # NoCancel
      BY <1>2, <2>1, <3>1 DEF NoCancel
    <3>4. QED
      BY <1>1, <1>2, <2>1, <3>1, <3>2, <3>3 DEF LastFits
  <2>2. CASE stage.last.work # w
    <3>1. given = [work |-> w, outcome |-> outcome]
      BY <2>2
    <3> HIDE DEF given, w
    <3>2. QED
      BY <1>2, <1>5, <3>1 DEF NoCancel
  <2>3. QED
    BY <2>1, <2>2
<1>7. stage'.active = w => stage'.cancelling = w \/ w \in orphaned'
  <2>1. stage'.active = stage.active /\ stage'.cancelling = stage.cancelling
    BY <1>1, <1>4 DEF TypeInvariant, OwnerTypes
  <2>2. QED
    BY <1>1, <1>4, <2>1 DEF WaitFits, Over, TypeInvariant, ThreadTypes, CallRecord
<1> HIDE DEF given
<1>8. /\ stage'.active = stage.active /\ stage'.cancelling = stage.cancelling
      /\ stage'.closed = stage.closed /\ stage'.last = given
  BY <1>1, <1>4 DEF TypeInvariant, OwnerTypes
<1>9. QueueGoesOn /\ StageGoesOn /\ ClaimsAreOwned'
  <2>1. QueueGoesOn
    BY <1>1, <1>4, QueueIsKept DEF queue
  <2>2. QED
    BY <1>1, <1>4, <1>8, <2>1, WorkersStay DEF StageGoesOn
<1>10. /\ reported' \in [Outcome -> SUBSET Work]
       /\ reported'.completed = IF given.outcome = "completed" THEN reported.completed \cup {w}
                                 ELSE reported.completed
  <2>1. reported \in [Outcome -> SUBSET Work] /\ "completed" \in Outcome
    BY <1>1 DEF TypeInvariant, HistoryTypes, Outcome
  <2>2. reported' = [reported EXCEPT ![given.outcome] = @ \cup {w}]
    BY <1>4, <1>6 DEF CancelReturns
  <2> HIDE DEF w
  <2>3. QED
    BY <1>2, <1>6, <2>1, <2>2
<1>11. LastFits'
  BY <1>2, <1>6, <1>7, <1>8, <1>10 DEF LastFits
<1>12. CompletedAreOver'
  <2>1. \A v : Over(v) => Over(v)'
    BY <1>1, <1>9, StaysOver
  <2>2. ASSUME NEW v \in reported'.completed PROVE Over(v)
    BY <1>1, <1>6, <1>10, <2>2 DEF CompletedAreOver, WaitFits
  <2>3. QED
    BY <2>1, <2>2 DEF CompletedAreOver
<1>13. FlushedStaySilent'
  BY <1>4, <1>9, FlushedStay
<1>14. /\ ThreadTypes' /\ WaitFits(t)' /\ FlushFits(t)'
       /\ \A u \in Controller : u # t => call'[u] = call[u]
  <2>1. \A v : Silenced(v) => Silenced(v)'
    BY <1>1, <1>9, StaysOver
  <2>2. \A v \in Scope(t) : Silenced(v)'
    BY <1>1, <2>1 DEF FlushFits
  <2>3. QED
    BY <1>1, <1>4, <1>9, <2>2, CancelEnds DEF CancelReturns
<1>15. OwnerTypes' /\ HistoryTypes'
  BY <1>1, <1>4, <1>6, <1>10 DEF TypeInvariant, OwnerTypes, HistoryTypes
<1>16. QED
  BY <1>4, <1>8, <1>9, <1>11, <1>12, <1>13, <1>14, <1>15, ControllerKeeps

(* The steps of the host: contexts, the queue's admission, and the close.     *)
LEMMA HostKeeps ==
    ASSUME VoiceInvariant,
           \/ BindGeneration \/ RetireGeneration \/ ControlAdmission \/ CloseStage
           \/ \E c \in 1 .. latest : Enqueue(c)
           \/ \E c \in 0 .. latest : ClearPending(c)
    PROVE  VoiceInvariant'
<1>1. /\ TypeInvariant /\ QueueIsOwned /\ ClaimsAreOwned /\ QueueTypes
      /\ latest \in 0 .. MaxContexts /\ current \in {NoContext, latest} /\ MaxContexts \in Nat
  BY VoiceAssumption DEF VoiceInvariant, TypeInvariant, OwnerTypes
<1>2. /\ UNCHANGED <<job, call, artifact, reported, orphaned, flushed>>
      /\ stage' \in {stage, [stage EXCEPT !.closed = TRUE]}
      /\ current' \in {NoContext, latest'} /\ latest' \in 0 .. MaxContexts
  <2>1. CASE BindGeneration
    BY <1>1, <2>1 DEF BindGeneration, histories
  <2>2. CASE RetireGeneration
    BY <1>1, <2>2 DEF RetireGeneration, histories
  <2>3. CASE ControlAdmission
    BY <1>1, <2>3 DEF ControlAdmission, histories, gate
  <2>4. CASE CloseStage
    BY <1>1, <2>4 DEF CloseStage, histories, gate
  <2>5. CASE \E c \in 1 .. latest : Enqueue(c)
    BY <1>1, <2>5 DEF Enqueue, histories, gate
  <2>6. CASE \E c \in 0 .. latest : ClearPending(c)
    BY <1>1, <2>6 DEF ClearPending, histories, gate
  <2>7. QED
    BY <2>1, <2>2, <2>3, <2>4, <2>5, <2>6
<1>3. /\ QueueGoesOn /\ boundary'.inFlight = boundary.inFlight
      /\ pending' = pending \/ QueueLockFree
  <2>1. CASE BindGeneration \/ RetireGeneration \/ CloseStage
    <3>1. UNCHANGED <<queue, contextOf>>
      BY <2>1 DEF BindGeneration, RetireGeneration, CloseStage
    <3>2. QED
      BY <1>1, <3>1, QueueIsKept DEF queue
  <2>2. CASE ControlAdmission
    BY <1>1, <2>2, ControlKeepsQueue DEF ControlAdmission
  <2>3. CASE \E c \in 1 .. latest : Enqueue(c)
    <3>1. PICK c \in 1 .. latest : Enqueue(c)
      BY <2>3
    <3>2. c \in Context
      BY <1>1 DEF Context
    <3>3. boundary.inFlight \subseteq 1 .. Newest
      BY <1>1 DEF ClaimsAreOwned, Holding, JobFits
    <3>4. QED
      BY <1>1, <3>1, <3>2, <3>3, EnqueueKeepsQueue DEF Enqueue
  <2>4. CASE \E c \in 0 .. latest : ClearPending(c)
    <3>1. PICK c \in 0 .. latest : ClearPending(c)
      BY <2>4
    <3>2. QED
      BY <1>1, <3>1, ClearKeepsQueue DEF ClearPending, Clear
  <2>5. QED
    BY <2>1, <2>2, <2>3, <2>4
<1>4. stage'.active = stage.active
  BY <1>1, <1>2 DEF TypeInvariant, OwnerTypes
<1>5. ClaimsAreOwned' /\ ThreadTypes'
  BY <1>1, <1>2, <1>3, <1>4, WorkersStay DEF TypeInvariant, ThreadTypes
<1>6. QED
  BY <1>2, <1>3, <1>5, QuietStep

LEMMA StartKeeps ==
    ASSUME VoiceInvariant, NEW t \in Worker, NEW c \in 1 .. latest, Start(t, c)
    PROVE  VoiceInvariant'
<1>1. TypeInvariant /\ QueueIsOwned /\ ClaimsAreOwned /\ c \in Context
  BY VoiceAssumption DEF VoiceInvariant, TypeInvariant, OwnerTypes, Context
<1>2. QueueGoesOn /\ ClaimsAreOwned'
  BY <1>1, StartKeepsClaims
<1>3. NextWork \in Work /\ NextWork \notin 1 .. Newest
  BY <1>1, QueueFacts DEF Start, NextWork, TypeInvariant
<1>4. ThreadTypes'
  <2>1. NextWork \in 0 .. MaxWork
    BY <1>3, VoiceAssumption DEF Work
  <2>2. /\ call' = call
        /\ job' = [job EXCEPT ![t] = [@ EXCEPT !.pc = "running", !.work = NextWork]]
    BY DEF Start
  <2>3. QED
    BY <1>1, <2>1, <2>2 DEF TypeInvariant, ThreadTypes, JobRecord
<1>5. QED
  BY <1>2, <1>3, <1>4, ClaimStageKeeps DEF Start

LEMMA VoiceInit == Init => VoiceInvariant
<1> SUFFICES ASSUME Init PROVE VoiceInvariant
  OBVIOUS
<1>1. /\ pending = <<>> /\ boundary = Boundary!Empty /\ contextOf = <<>>
      /\ stage = [closed |-> FALSE, active |-> NoWork, cancelling |-> NoWork, last |-> NoCancel]
      /\ current = NoContext /\ latest = 0
      /\ artifact = [w \in Work |-> "none"]
      /\ job = [t \in Worker |-> Idle] /\ call = [t \in Controller |-> NoCall]
      /\ reported = [outcome \in {"completed", "timed_out"} |-> {}]
      /\ orphaned = {} /\ flushed = {}
  BY DEF Init
<1>2. /\ pending \in Seq(Work) /\ Len(pending) = 0 /\ DOMAIN pending = {}
      /\ contextOf \in Seq(Context) /\ Newest = 0 /\ 1 .. Newest = {}
  BY <1>1, LenProperties, EmptySeq DEF Newest
<1>3. Owner!Sound(boundary) /\ boundary.pending = <<>> /\ boundary.inFlight = {}
  <2>1. Boundary!Empty = Owner!Empty
    BY DEF Boundary!Empty, Owner!Empty
  <2>2. Owner!Sound(boundary)
    BY <1>1, <2>1, Owner!InitIsSound, VoiceAssumption
       DEF Owner!RuntimeInit, Owner!BackpressureInvariant
  <2>3. QED
    BY <1>1, <2>1, <2>2 DEF Owner!Empty
<1>4. QueueIsOwned
  BY <1>1, <1>2, <1>3 DEF QueueIsOwned
<1>5. TypeInvariant
  <2>1. NoWork \in 0 .. MaxWork /\ NoContext \in 0 .. MaxContexts
    BY VoiceAssumption DEF NoWork, NoContext
  <2>2. QueueTypes
    <3>1. boundary \in Owner!Runtime
      BY <1>3 DEF Owner!Sound
    <3>2. Boundary!RuntimeTypes
      BY <3>1 DEF Boundary!RuntimeTypes, Boundary!Runtime, Owner!Runtime
    <3>3. QED
      BY <1>2, <3>2, VoiceAssumption DEF QueueTypes
  <2>3. OwnerTypes
    <3>1. NoCancel \in [work : 0 .. MaxWork, outcome : Outcome \cup {"none"}]
      BY <2>1 DEF NoCancel
    <3>2. QED
      BY <1>1, <2>1, <3>1, VoiceAssumption DEF OwnerTypes, NoContext
  <2>4. ThreadTypes
    <3>1. Idle \in JobRecord
      BY <2>1 DEF Idle, JobRecord
    <3>2. NoCall \in CallRecord
      BY <2>1 DEF NoCall, NoWork, NoContext, CallRecord
    <3>3. QED
      BY <1>1, <3>1, <3>2 DEF ThreadTypes
  <2>5. HistoryTypes
    BY <1>1 DEF HistoryTypes, Outcome
  <2>6. QED
    BY <2>2, <2>3, <2>4, <2>5 DEF TypeInvariant
<1>6. ClaimsAreOwned
  <2>1. OnStage = {} /\ Holding = {}
    BY <1>1 DEF OnStage, Holding, Idle
  <2>2. \A t \in Worker : JobFits(t)
    BY <1>1 DEF JobFits, Idle
  <2>3. QED
    BY <1>1, <1>3, <2>1, <2>2 DEF ClaimsAreOwned
<1>7. Promises
  <2>1. LastFits
    BY <1>1 DEF LastFits, NoCancel, NoWork
  <2>2. CompletedAreOver /\ FlushedStaySilent
    BY <1>1 DEF CompletedAreOver, FlushedStaySilent
  <2>3. \A t \in Controller : call[t] = NoCall
    BY <1>1
  <2>4. \A t \in Controller : WaitFits(t)
    BY <2>3 DEF WaitFits, NoCall
  <2>5. \A t \in Controller : FlushFits(t)
    <3>1. SUFFICES ASSUME NEW t \in Controller PROVE FlushFits(t)
      OBVIOUS
    <3>2. NoCall.pc = "idle" /\ NoCall.known = 0
      BY DEF NoCall
    <3>3. call[t] = NoCall
      BY <2>3
    <3>4. call[t].pc = "idle" /\ call[t].known = 0
      BY <3>2, <3>3
    <3>5. Scope(t) = {}
      BY <3>4 DEF Scope
    <3>6. QED
      BY <1>2, <3>3, <3>4, <3>5 DEF FlushFits
  <2>6. QED
    BY <2>1, <2>2, <2>4, <2>5 DEF Promises
<1>8. QED
  BY <1>4, <1>5, <1>6, <1>7 DEF VoiceInvariant

LEMMA VoiceStep == VoiceInvariant /\ [Next]_vars => VoiceInvariant'
<1> SUFFICES ASSUME VoiceInvariant, [Next]_vars PROVE VoiceInvariant'
  OBVIOUS
<1>1. ASSUME NEW t \in Worker, WorkerStep(t) PROVE VoiceInvariant'
  BY <1>1, WorkerKeeps
<1>2. ASSUME NEW t \in Worker, NEW c \in 1 .. latest, Start(t, c) PROVE VoiceInvariant'
  BY <1>2, StartKeeps
<1>3. ASSUME NEW t \in Controller, ControllerStep(t) PROVE VoiceInvariant'
  <2>1. CASE LookAtActive(t)
    BY <2>1, LookKeeps
  <2>2. CASE CancelFlushed(t)
    BY <2>2, AnswersKeeps, RequestsKeeps DEF CancelFlushed, Cancel, Asks
  <2>3. CASE Report(t)
    BY <2>3, ReportKeeps
  <2>4. CASE InvalidateCompleted(t)
    BY <2>4, InvalidateKeeps
  <2>5. QED
    BY <1>3, <2>1, <2>2, <2>3, <2>4 DEF ControllerStep
<1>4. ASSUME NEW t \in Flusher, NEW c \in 0 .. latest, Flush(t, c) PROVE VoiceInvariant'
  BY <1>4, FlushKeeps
<1>5. ASSUME NEW t \in Canceller, NEW c \in 1 .. latest, NEW w, CancelWork(t, c, w)
      PROVE  VoiceInvariant'
  BY <1>5, AnswersKeeps, RequestsKeeps DEF CancelWork, Cancel, Asks, Controller
<1>6. CASE UNCHANGED vars
  <2>1. /\ UNCHANGED <<pending, boundary, stage, current, latest, artifact, contextOf, job, call,
                       reported, orphaned, flushed>>
    BY <1>6 DEF vars, queue, gate, histories
  <2>2. QueueGoesOn
    BY <2>1, QueueIsKept DEF VoiceInvariant, TypeInvariant, queue
  <2>3. ClaimsAreOwned' /\ ThreadTypes'
    BY <2>1, <2>2, WorkersStay DEF VoiceInvariant, TypeInvariant, ThreadTypes
  <2>4. current' \in {NoContext, latest'} /\ latest' \in 0 .. MaxContexts
    BY <2>1 DEF VoiceInvariant, TypeInvariant, OwnerTypes
  <2>5. QED
    BY <2>1, <2>2, <2>3, <2>4, QuietStep
<1>7. QED
  BY <1>1, <1>2, <1>3, <1>4, <1>5, <1>6, HostKeeps DEF Next

(* For every number of threads, works and contexts: what the threads of the   *)
(* three locks do keeps the state's types, and the queue within its depth.   *)
THEOREM VoiceIsTyped == Spec => []TypeInvariant
<1>1. VoiceInvariant => TypeInvariant
  BY DEF VoiceInvariant
<1>2. QED
  BY VoiceInit, VoiceStep, <1>1, PTL DEF Spec

(* handoff_next, clear_pending and the finally clause of _run_claimed never   *)
(* disagree about the owner of a work: the assertions "lost pending          *)
(* ownership" and "in-flight ownership was lost" of the code never fire, and *)
(* one worker at most is on the stage.                                       *)
THEOREM OwnershipIsNeverLost == Spec => []QueueOwnsItsWork
<1>1. VoiceInvariant => QueueOwnsItsWork
  <2> SUFFICES ASSUME VoiceInvariant PROVE QueueOwnsItsWork
    OBVIOUS
  <2>1. QueueIsOwned /\ ClaimsAreOwned
    BY DEF VoiceInvariant
  <2>2. ASSUME NEW S, \A t, u \in S : t = u PROVE Cardinality(S) <= 1
    <3>1. CASE S = {}
      BY <3>1, FS_EmptySet
    <3>2. CASE S # {}
      <4>1. PICK t \in S : S = {t}
        BY <2>2, <3>2
      <4>2. QED
        BY <4>1, FS_Singleton
    <3>3. QED
      BY <3>1, <3>2
  <2>3. Cardinality(Holding) <= 1 /\ Cardinality(OnStage) <= 1
    BY <2>1, <2>2 DEF ClaimsAreOwned
  <2>4. {stage.active} \ {NoWork} = {job[t].work : t \in OnStage}
    <3>1. \A t \in OnStage : stage.active = job[t].work /\ job[t].work # NoWork
      BY <2>1 DEF ClaimsAreOwned, OnStage, JobFits, NoWork
    <3>2. stage.active # NoWork => OnStage # {}
      BY <2>1 DEF ClaimsAreOwned
    <3>3. QED
      BY <3>1, <3>2
  <2>5. QED
    BY <2>1, <2>3, <2>4 DEF QueueOwnsItsWork, QueueIsOwned, ClaimsAreOwned
<1>2. QED
  BY VoiceInit, VoiceStep, <1>1, PTL DEF Spec

(* "Framework-cooperative cancellation completed" is true for good: the work  *)
(* a cancel was told that of is off the stage, out of the queue, and is      *)
(* never claimed again.                                                      *)
THEOREM CompletedIsFinal == Spec => []CompletedMeansOver
<1>1. VoiceInvariant => CompletedMeansOver
  BY DEF VoiceInvariant, Promises, CompletedAreOver, CompletedMeansOver, Over
<1>2. QED
  BY VoiceInit, VoiceStep, <1>1, PTL DEF Spec

(* A flush keeps its word however many workers, cancels and flushes run: no   *)
(* work of the context it flushed has a playable artifact afterwards, not    *)
(* even one whose result arrives later.                                      *)
THEOREM FlushSilencesItsContext == Spec => []FlushedIsUnplayable
<1>1. VoiceInvariant => FlushedIsUnplayable
  BY DEF VoiceInvariant, Promises, FlushedStaySilent, FlushedIsUnplayable
<1>2. QED
  BY VoiceInit, VoiceStep, <1>1, PTL DEF Spec
=============================================================================
