----------------------- MODULE BackpressureRuntimeProofs -----------------------
(***************************************************************************)
(* The limits of a backpressure boundary, its ownership and its refusal to *)
(* drop work, for every set of items and every limit.                      *)
(***************************************************************************)
EXTENDS BackpressureRuntime, SequenceTheorems, FiniteSetTheorems, TLAPS

(* Taking a pending item out leaves the others, in order, and only them.      *)
LEMMA WithoutItem ==
    ASSUME NEW pending \in Seq(Item), NEW item, \E i \in DOMAIN pending : pending[i] = item
    PROVE  \E k \in 1 .. Len(pending) :
              /\ pending[k] = item
              /\ Without(pending, item) \in Seq(Item)
              /\ Len(Without(pending, item)) = Len(pending) - 1
              /\ \A i \in 1 .. Len(pending) - 1 :
                    Without(pending, item)[i] = IF i < k THEN pending[i] ELSE pending[i + 1]
<1> DEFINE k == CHOOSE i \in DOMAIN pending : pending[i] = item
           front == SubSeq(pending, 1, k - 1)
           back == SubSeq(pending, k + 1, Len(pending))
<1>1. k \in 1 .. Len(pending) /\ pending[k] = item
    OBVIOUS
<1>2. Without(pending, item) = front \o back
    BY DEF Without, SeqExt!RemoveAt
<1> HIDE DEF k
<1>3. /\ front \in Seq(Item) /\ Len(front) = k - 1
      /\ \A i \in 1 .. k - 1 : front[i] = pending[i]
    BY <1>1
<1>4. /\ back \in Seq(Item) /\ Len(back) = Len(pending) - k
      /\ \A i \in 1 .. Len(pending) - k : back[i] = pending[k + i]
    BY <1>1
<1> HIDE DEF front, back
<1>5. /\ front \o back \in Seq(Item)
      /\ Len(front \o back) = Len(front) + Len(back)
      /\ \A i \in 1 .. Len(front) + Len(back) :
            (front \o back)[i] = IF i <= Len(front) THEN front[i] ELSE back[i - Len(front)]
    BY <1>3, <1>4, ConcatProperties
<1>6. Len(pending) \in Nat /\ Len(front) + Len(back) = Len(pending) - 1
    BY <1>1, <1>3, <1>4
<1>7. ASSUME NEW i \in 1 .. Len(pending) - 1
      PROVE  (front \o back)[i] = IF i < k THEN pending[i] ELSE pending[i + 1]
    <2>1. CASE i < k
        BY <1>1, <1>3, <1>5, <1>6, <2>1
    <2>2. CASE ~(i < k)
        <3>1. i - (k - 1) \in 1 .. Len(pending) - k /\ k + (i - (k - 1)) = i + 1
            BY <1>1, <1>6, <2>2
        <3>2. (front \o back)[i] = back[i - (k - 1)]
            BY <1>1, <1>3, <1>5, <1>6, <2>2
        <3> QED BY <1>4, <2>2, <3>1, <3>2
    <2> QED BY <2>1, <2>2
<1> QED BY <1>1, <1>2, <1>5, <1>6, <1>7

-----------------------------------------------------------------------------
(* What every operation keeps, stated of a runtime record: its type, the      *)
(* limits and single ownership.  Finiteness makes the in-flight count one.   *)
Distinct(pending) == \A i, j \in DOMAIN pending : pending[i] = pending[j] => i = j

Sound(rt) ==
    /\ rt \in Runtime
    /\ Len(rt.pending) <= MaxPending
    /\ IsFiniteSet(rt.inFlight) /\ Cardinality(rt.inFlight) <= MaxInFlight
    /\ Distinct(rt.pending)
    /\ \A i \in DOMAIN rt.pending : rt.pending[i] \notin rt.inFlight

(* Removal keeps a queue without repetitions and gives up the item only.      *)
LEMMA WithoutIsDistinct ==
    ASSUME NEW pending \in Seq(Item), NEW item, \E i \in DOMAIN pending : pending[i] = item,
           Distinct(pending)
    PROVE  /\ Without(pending, item) \in Seq(Item)
           /\ Len(Without(pending, item)) = Len(pending) - 1
           /\ Distinct(Without(pending, item))
           /\ \A i \in DOMAIN Without(pending, item) : Without(pending, item)[i] # item
           /\ \A i \in DOMAIN Without(pending, item) :
                 \E j \in DOMAIN pending : Without(pending, item)[i] = pending[j]
           /\ \A j \in DOMAIN pending : pending[j] # item =>
                 \E i \in DOMAIN Without(pending, item) : Without(pending, item)[i] = pending[j]
<1> DEFINE rest == Without(pending, item)
<1>1. PICK k \in 1 .. Len(pending) :
              /\ pending[k] = item
              /\ rest \in Seq(Item)
              /\ Len(rest) = Len(pending) - 1
              /\ \A i \in 1 .. Len(pending) - 1 :
                    rest[i] = IF i < k THEN pending[i] ELSE pending[i + 1]
    BY WithoutItem
<1> HIDE DEF rest
<1>2. /\ Len(pending) \in Nat
      /\ DOMAIN pending = 1 .. Len(pending)
      /\ DOMAIN rest = 1 .. Len(pending) - 1
    BY <1>1
<1> DEFINE from(i) == IF i < k THEN i ELSE i + 1
<1>3. \A i \in DOMAIN rest : from(i) \in DOMAIN pending /\ from(i) # k /\ rest[i] = pending[from(i)]
    BY <1>1, <1>2
<1>4. \A i, j \in DOMAIN rest : from(i) = from(j) => i = j
    BY <1>2
<1>5. ASSUME NEW j \in DOMAIN pending, pending[j] # item
      PROVE  \E i \in DOMAIN rest : rest[i] = pending[j]
    <2>1. j # k
        BY <1>1, <1>5
    <2>2. CASE j < k
        BY <1>1, <1>2, <2>2
    <2>3. CASE j > k
        <3>1. j - 1 \in DOMAIN rest /\ ~(j - 1 < k) /\ (j - 1) + 1 = j
            BY <1>2, <2>3
        <3>2. rest[j - 1] = pending[j]
            BY <1>1, <1>2, <3>1
        <3> QED BY <3>1, <3>2
    <2> QED BY <1>2, <2>1, <2>2, <2>3
<1> HIDE DEF from
<1>6. Distinct(rest)
    BY <1>3, <1>4 DEF Distinct
<1>7. \A i \in DOMAIN rest : rest[i] # item
    BY <1>1, <1>2, <1>3 DEF Distinct
<1> QED BY <1>1, <1>3, <1>5, <1>6, <1>7 DEF rest

(* An admission that is not refused has room for its item.                    *)
LEMMA AdmittedIsSound ==
    ASSUME NEW rt, Sound(rt), NEW item \in Item, item \notin Owned(rt), NEW immediately \in BOOLEAN
    PROVE  Sound(Admitted(rt, item, immediately))
<1> DEFINE why == Rejection(rt, immediately)
           next == Admitted(rt, item, immediately)
<1>1. item \notin rt.inFlight /\ \A i \in DOMAIN rt.pending : rt.pending[i] # item
    BY DEF Owned, IsPending
<1>2. why \in {"none", "paused", "closed", "capacity_reached"}
    BY DEF Rejection
<1>0. /\ rt \in Runtime /\ IsFiniteSet(rt.inFlight) /\ Cardinality(rt.inFlight) \in Nat
      /\ Len(rt.pending) <= MaxPending /\ Cardinality(rt.inFlight) <= MaxInFlight
    BY FS_CardinalityType DEF Sound
<1> SUFFICES Sound(next)
    OBVIOUS
<1> HIDE DEF next
<1>3. CASE why # "none"
    <2> DEFINE count == IF why = "capacity_reached" THEN rt.overflows + 1 ELSE rt.overflows
    <2>1. next = [rt EXCEPT !.rejection = why, !.overflows = count]
        BY <1>3 DEF Admitted, next
    <2>3. count \in Nat
        BY <1>0 DEF Runtime
    <2> HIDE DEF why, count
    <2>2. next \in Runtime /\ next.pending = rt.pending /\ next.inFlight = rt.inFlight
        BY <1>0, <1>2, <2>1, <2>3 DEF Runtime
    <2> QED BY <2>2 DEF Sound
<1>4. CASE why = "none" /\ immediately
    <2>1. next = [rt EXCEPT !.inFlight = @ \cup {item}, !.rejection = "none"]
        BY <1>4 DEF Admitted, next
    <2>2. next \in Runtime /\ next.pending = rt.pending /\ next.inFlight = rt.inFlight \cup {item}
        BY <1>0, <2>1 DEF Runtime
    <2>3. Cardinality(rt.inFlight) < MaxInFlight
        BY <1>0, <1>4, LimitAssumption DEF Rejection, AtCapacity
    <2>4. /\ IsFiniteSet(rt.inFlight \cup {item})
          /\ Cardinality(rt.inFlight \cup {item}) = Cardinality(rt.inFlight) + 1
        BY <1>0, <1>1, FS_AddElement
    <2>5. Cardinality(rt.inFlight) + 1 <= MaxInFlight
        BY <1>0, <2>3, LimitAssumption
    <2>6. IsFiniteSet(next.inFlight) /\ Cardinality(next.inFlight) <= MaxInFlight
        BY <2>2, <2>4, <2>5
    <2> QED BY <1>1, <2>2, <2>6 DEF Sound
<1>5. CASE why = "none" /\ ~immediately
    <2>1. next = [rt EXCEPT !.pending = Append(@, item), !.rejection = "none"]
        BY <1>5 DEF Admitted, next
    <2>0. Append(rt.pending, item) \in Seq(Item)
        BY <1>0 DEF Runtime
    <2>2. /\ next \in Runtime /\ next.pending = Append(rt.pending, item)
          /\ next.inFlight = rt.inFlight
        <3> DEFINE queue == Append(rt.pending, item)
        <3> HIDE DEF queue
        <3>1. next = [rt EXCEPT !.pending = queue, !.rejection = "none"]
            BY <2>1 DEF queue
        <3>2. queue \in Seq(Item)
            BY <2>0 DEF queue
        <3>3. next \in Runtime /\ next.pending = queue /\ next.inFlight = rt.inFlight
            BY <1>0, <3>1, <3>2 DEF Runtime
        <3> QED BY <3>3 DEF queue
    <2>3. rt.pending \in Seq(Item) /\ Len(rt.pending) < MaxPending
        BY <1>0, <1>5, LimitAssumption DEF Rejection, AtCapacity, Runtime
    <2>4. /\ Len(next.pending) = Len(rt.pending) + 1
          /\ DOMAIN next.pending = 1 .. Len(rt.pending) + 1
          /\ \A i \in 1 .. Len(rt.pending) : next.pending[i] = rt.pending[i]
          /\ next.pending[Len(rt.pending) + 1] = item
        BY <2>2, <2>3, AppendProperties
    <2>5. Len(rt.pending) \in Nat /\ DOMAIN rt.pending = 1 .. Len(rt.pending)
        BY <2>3
    <2>6. Distinct(next.pending)
        <3>1. /\ \A i \in 1 .. Len(rt.pending) : rt.pending[i] # item
              /\ \A i, j \in 1 .. Len(rt.pending) : rt.pending[i] = rt.pending[j] => i = j
            BY <1>1, <2>5 DEF Distinct, Sound
        <3> SUFFICES ASSUME NEW i \in DOMAIN next.pending, NEW j \in DOMAIN next.pending,
                            next.pending[i] = next.pending[j]
                     PROVE  i = j
            BY DEF Distinct
        <3> DEFINE last == Len(rt.pending) + 1
        <3>2. i \in 1 .. last /\ j \in 1 .. last
            BY <2>4
        <3>3. CASE i = last /\ j = last
            BY <3>3
        <3>4. CASE i # last /\ j # last
            <4>1. i \in 1 .. Len(rt.pending) /\ j \in 1 .. Len(rt.pending)
                BY <2>5, <3>2, <3>4
            <4> QED BY <2>4, <3>1, <4>1
        <3>5. CASE i # last /\ j = last
            <4>1. i \in 1 .. Len(rt.pending)
                BY <2>5, <3>2, <3>5
            <4>2. next.pending[i] = rt.pending[i] /\ next.pending[j] = item
                BY <2>4, <3>5, <4>1
            <4> QED BY <3>1, <4>1, <4>2
        <3>6. CASE i = last /\ j # last
            <4>1. j \in 1 .. Len(rt.pending)
                BY <2>5, <3>2, <3>6
            <4>2. next.pending[j] = rt.pending[j] /\ next.pending[i] = item
                BY <2>4, <3>6, <4>1
            <4> QED BY <3>1, <4>1, <4>2
        <3> QED BY <3>3, <3>4, <3>5, <3>6
    <2>7. \A i \in DOMAIN next.pending : next.pending[i] \notin next.inFlight
        BY <1>1, <2>2, <2>4, <2>5 DEF Sound
    <2> QED BY <2>2, <2>3, <2>4, <2>5, <2>6, <2>7, LimitAssumption DEF Sound
<1> QED BY <1>3, <1>4, <1>5

(* claim moves an item: the queue loses it, in-flight gains it within limits. *)
LEMMA ClaimedIsSound ==
    ASSUME NEW rt, Sound(rt), NEW item \in Item
    PROVE  /\ Sound(Claimed(rt, item))
           /\ Owned(Claimed(rt, item)) = Owned(rt)
           /\ Claimed(rt, item).state = rt.state
<1> DEFINE next == Claimed(rt, item)
<1>1. CASE Cardinality(rt.inFlight) >= MaxInFlight \/ ~IsPending(rt, item)
    BY <1>1 DEF Claimed
<1>2. CASE ~(Cardinality(rt.inFlight) >= MaxInFlight) /\ IsPending(rt, item)
    <2> DEFINE rest == Without(rt.pending, item)
    <2>1. next = [rt EXCEPT !.pending = rest, !.inFlight = @ \cup {item}]
        BY <1>2 DEF Claimed
    <2>2. /\ rt \in Runtime /\ rt.pending \in Seq(Item)
          /\ IsFiniteSet(rt.inFlight) /\ Cardinality(rt.inFlight) \in Nat
        BY FS_CardinalityType DEF Sound, Runtime
    <2>3. /\ rest \in Seq(Item) /\ Len(rest) = Len(rt.pending) - 1 /\ Distinct(rest)
          /\ \A i \in DOMAIN rest : rest[i] # item
          /\ \A i \in DOMAIN rest : \E j \in DOMAIN rt.pending : rest[i] = rt.pending[j]
          /\ \A j \in DOMAIN rt.pending : rt.pending[j] # item =>
                \E i \in DOMAIN rest : rest[i] = rt.pending[j]
        BY <1>2, <2>2, WithoutIsDistinct DEF IsPending, Sound
    <2> HIDE DEF rest, next
    <2>4. /\ next \in Runtime /\ next.pending = rest /\ next.inFlight = rt.inFlight \cup {item}
          /\ next.state = rt.state
        BY <2>1, <2>2, <2>3 DEF Runtime
    <2>5. item \notin rt.inFlight
        BY <1>2 DEF IsPending, Sound
    <2>6. /\ IsFiniteSet(rt.inFlight \cup {item})
          /\ Cardinality(rt.inFlight \cup {item}) = Cardinality(rt.inFlight) + 1
        BY <2>2, <2>5, FS_AddElement
    <2>7. IsFiniteSet(next.inFlight) /\ Cardinality(next.inFlight) <= MaxInFlight
        BY <1>2, <2>2, <2>4, <2>6, LimitAssumption
    <2>8. Len(next.pending) <= MaxPending
        <3>1. Len(rt.pending) \in Nat /\ Len(rt.pending) <= MaxPending
            BY <2>2 DEF Sound
        <3> QED BY <2>3, <2>4, <3>1, LimitAssumption
    <2>9. \A i \in DOMAIN rest : rest[i] \notin rt.inFlight
        BY <2>3 DEF Sound
    <2>10. Sound(next)
        BY <2>3, <2>4, <2>7, <2>8, <2>9 DEF Sound
    <2>11. Owned(next) = Owned(rt)
        BY <1>2, <2>3, <2>4 DEF Owned, IsPending
    <2> QED BY <2>4, <2>10, <2>11 DEF next
<1> QED BY <1>1, <1>2

(* complete and withdraw_pending give up the item they name and nothing else.  *)
LEMMA CompletedIsSound ==
    ASSUME NEW rt, Sound(rt), NEW item \in Item
    PROVE  /\ Sound(Completed(rt, item))
           /\ Owned(rt) \ {item} \subseteq Owned(Completed(rt, item))
           /\ Owned(Completed(rt, item)) \subseteq Owned(rt)
           /\ Completed(rt, item).state = rt.state /\ Completed(rt, item).rejection = rt.rejection
<1> DEFINE next == Completed(rt, item)
<1>1. rt \in Runtime /\ IsFiniteSet(rt.inFlight) /\ Cardinality(rt.inFlight) \in Nat
    BY FS_CardinalityType DEF Sound
<1>2. /\ next \in Runtime /\ next.pending = rt.pending /\ next.inFlight = rt.inFlight \ {item}
      /\ next.state = rt.state /\ next.rejection = rt.rejection
    BY <1>1 DEF Completed, Runtime
<1>3. IsFiniteSet(rt.inFlight \ {item}) /\ Cardinality(rt.inFlight \ {item}) <= Cardinality(rt.inFlight)
    BY <1>1, FS_Subset
<1>4. Cardinality(rt.inFlight \ {item}) \in Nat
    BY <1>3, FS_CardinalityType
<1> HIDE DEF next
<1>5. Cardinality(next.inFlight) <= MaxInFlight
    BY <1>1, <1>2, <1>3, <1>4, LimitAssumption DEF Sound
<1>6. Sound(next)
    BY <1>2, <1>3, <1>5 DEF Sound
<1>7. Owned(rt) \ {item} \subseteq Owned(next) /\ Owned(next) \subseteq Owned(rt)
    BY <1>2 DEF Owned, IsPending
<1> QED BY <1>2, <1>6, <1>7 DEF next

LEMMA WithdrawnIsSound ==
    ASSUME NEW rt, Sound(rt), NEW item \in Item
    PROVE  /\ Sound(Withdrawn(rt, item))
           /\ Owned(rt) \ {item} \subseteq Owned(Withdrawn(rt, item))
           /\ Owned(Withdrawn(rt, item)) \subseteq Owned(rt)
           /\ Withdrawn(rt, item).state = rt.state /\ Withdrawn(rt, item).rejection = rt.rejection
<1> DEFINE next == Withdrawn(rt, item)
<1>1. CASE ~IsPending(rt, item)
    BY <1>1 DEF Withdrawn
<1>2. CASE IsPending(rt, item)
    <2> DEFINE rest == Without(rt.pending, item)
    <2>1. rt \in Runtime /\ rt.pending \in Seq(Item)
        BY DEF Sound, Runtime
    <2>2. next = [rt EXCEPT !.pending = rest]
        BY <1>2 DEF Withdrawn
    <2>3. /\ rest \in Seq(Item) /\ Len(rest) = Len(rt.pending) - 1 /\ Distinct(rest)
          /\ \A i \in DOMAIN rest : \E j \in DOMAIN rt.pending : rest[i] = rt.pending[j]
          /\ \A j \in DOMAIN rt.pending : rt.pending[j] # item =>
                \E i \in DOMAIN rest : rest[i] = rt.pending[j]
        BY <1>2, <2>1, WithoutIsDistinct DEF IsPending, Sound
    <2> HIDE DEF rest, next
    <2>4. /\ next \in Runtime /\ next.pending = rest /\ next.inFlight = rt.inFlight
          /\ next.state = rt.state /\ next.rejection = rt.rejection
        BY <2>1, <2>2, <2>3 DEF Runtime
    <2>5. Len(next.pending) <= MaxPending
        <3>1. Len(rt.pending) \in Nat /\ Len(rt.pending) <= MaxPending
            BY <2>1 DEF Sound
        <3> QED BY <2>3, <2>4, <3>1, LimitAssumption
    <2>6. Sound(next)
        BY <2>3, <2>4, <2>5 DEF Sound
    <2>7. Owned(rt) \ {item} \subseteq Owned(next) /\ Owned(next) \subseteq Owned(rt)
        BY <2>3, <2>4 DEF Owned, IsPending
    <2> QED BY <2>4, <2>6, <2>7 DEF next
<1> QED BY <1>1, <1>2

(* pause, resume and close change the state only.                             *)
LEMMA ControlIsSound ==
    ASSUME NEW rt, Sound(rt), NEW next \in {Paused(rt), Resumed(rt), Closed(rt)}
    PROVE  /\ Sound(next) /\ Owned(next) = Owned(rt)
           /\ rt.state = "closed" => next.state = "closed"
<1>1. rt \in Runtime
    BY DEF Sound
<1>2. /\ next \in Runtime /\ next.pending = rt.pending /\ next.inFlight = rt.inFlight
      /\ rt.state = "closed" => next.state = "closed"
    BY <1>1 DEF Runtime, Paused, Resumed, Closed
<1>3. Sound(next)
    BY <1>2 DEF Sound
<1> QED BY <1>2, <1>3 DEF Owned, IsPending

(* An admission adds its item at most, and nothing once the runtime is closed. *)
LEMMA AdmittedOwns ==
    ASSUME NEW rt \in Runtime, NEW item \in Item, NEW immediately \in BOOLEAN
    PROVE  /\ Owned(rt) \subseteq Owned(Admitted(rt, item, immediately))
           /\ rt.state = "closed" => Owned(Admitted(rt, item, immediately)) = Owned(rt)
           /\ Admitted(rt, item, immediately).state = rt.state
<1> DEFINE next == Admitted(rt, item, immediately)
           why == Rejection(rt, immediately)
<1>1. CASE why # "none"
    <2>1. next.pending = rt.pending /\ next.inFlight = rt.inFlight /\ next.state = rt.state
        BY <1>1 DEF Admitted, Runtime
    <2> QED BY <2>1 DEF Owned, IsPending
<1>2. CASE why = "none"
    <2>1. rt.state # "closed"
        BY <1>2 DEF Rejection
    <2>2. CASE immediately
        <3>1. /\ next.pending = rt.pending /\ next.inFlight = rt.inFlight \cup {item}
              /\ next.state = rt.state
            BY <1>2, <2>2 DEF Admitted, Runtime
        <3> QED BY <2>1, <3>1 DEF Owned, IsPending
    <2>3. CASE ~immediately
        <3>1. /\ next.pending = Append(rt.pending, item) /\ next.inFlight = rt.inFlight
              /\ next.state = rt.state
            BY <1>2, <2>3 DEF Admitted, Runtime
        <3>2. rt.pending \in Seq(Item)
            BY DEF Runtime
        <3>3. \A i \in DOMAIN rt.pending :
                  i \in DOMAIN Append(rt.pending, item) /\ Append(rt.pending, item)[i] = rt.pending[i]
            BY <3>2, AppendProperties
        <3> HIDE DEF next
        <3>4. Owned(rt) \subseteq Owned(next)
            BY <3>1, <3>3 DEF Owned, IsPending
        <3> QED BY <2>1, <3>1, <3>4 DEF next
    <2> QED BY <2>2, <2>3
<1> QED BY <1>1, <1>2

-----------------------------------------------------------------------------
(* The inductive invariant of the specification.                              *)
BackpressureInvariant == Sound(runtime)

LEMMA InitIsSound == RuntimeInit => BackpressureInvariant
<1> SUFFICES ASSUME RuntimeInit PROVE BackpressureInvariant
    OBVIOUS
<1>1. runtime = Empty
    BY DEF RuntimeInit
<1>2. Empty \in Runtime /\ Empty.pending = << >> /\ Empty.inFlight = {}
    BY DEF Empty, Runtime
<1>3. Len(Empty.pending) = 0 /\ DOMAIN Empty.pending = {}
    BY <1>2
<1>4. IsFiniteSet(Empty.inFlight) /\ Cardinality(Empty.inFlight) = 0
    BY <1>2, FS_EmptySet
<1> QED BY <1>1, <1>2, <1>3, <1>4, LimitAssumption DEF BackpressureInvariant, Sound, Distinct

(* What one step does to the work the runtime owns: it gives up one item at    *)
(* most, and only a step that changes nothing else gives up any.              *)
GivesUpOneItem ==
    /\ \/ Owned(runtime) \subseteq Owned(runtime')
       \/ \E item \in Item : Owned(runtime) \ {item} \subseteq Owned(runtime')
    /\ \/ Owned(runtime) \subseteq Owned(runtime')
       \/ /\ runtime'.state = runtime.state /\ runtime'.rejection = runtime.rejection
          /\ Owned(runtime') \subseteq Owned(runtime)
    /\ runtime.state = "closed" =>
          runtime'.state = "closed" /\ Owned(runtime') \subseteq Owned(runtime)

LEMMA StepIsSound ==
    ASSUME Sound(runtime), RuntimeNext
    PROVE  Sound(runtime') /\ GivesUpOneItem
<1>1. ASSUME NEW item \in Item, NEW immediately \in BOOLEAN, Admit(item, immediately)
      PROVE  Sound(runtime') /\ GivesUpOneItem
    <2>1. runtime' = Admitted(runtime, item, immediately) /\ item \notin Owned(runtime)
        BY <1>1 DEF Admit
    <2>2. runtime \in Runtime
        BY DEF Sound
    <2>3. /\ Owned(runtime) \subseteq Owned(runtime')
          /\ runtime.state = "closed" => Owned(runtime') = Owned(runtime)
          /\ runtime'.state = runtime.state
        BY <2>1, <2>2, AdmittedOwns
    <2>4. Sound(runtime')
        BY <2>1, AdmittedIsSound
    <2> QED BY <2>3, <2>4 DEF GivesUpOneItem
<1>2. ASSUME NEW item \in Item, runtime' = Claimed(runtime, item)
      PROVE  Sound(runtime') /\ GivesUpOneItem
    BY <1>2, ClaimedIsSound DEF GivesUpOneItem
<1>3. ASSUME NEW item \in Item, Complete(item)
      PROVE  Sound(runtime') /\ GivesUpOneItem
    BY <1>3, CompletedIsSound DEF Complete, GivesUpOneItem
<1>4. ASSUME NEW item \in Item, Withdraw(item)
      PROVE  Sound(runtime') /\ GivesUpOneItem
    BY <1>4, WithdrawnIsSound DEF Withdraw, GivesUpOneItem
<1>5. ASSUME ClaimNext
      PROVE  Sound(runtime') /\ GivesUpOneItem
    <2>1. runtime.pending \in Seq(Item) /\ runtime.pending # << >>
        BY <1>5 DEF ClaimNext, Sound, Runtime
    <2>2. Head(runtime.pending) \in Item
        BY <2>1, HeadTailProperties
    <2> QED BY <1>2, <1>5, <2>2 DEF ClaimNext
<1>6. ASSUME Pause \/ Resume \/ Close
      PROVE  Sound(runtime') /\ GivesUpOneItem
    <2>1. runtime' \in {Paused(runtime), Resumed(runtime), Closed(runtime)}
        BY <1>6 DEF Pause, Resume, Close
    <2> QED BY <2>1, ControlIsSound DEF GivesUpOneItem
<1> QED BY <1>1, <1>2, <1>3, <1>4, <1>5, <1>6 DEF RuntimeNext, Claim

(* The runtime is sound in every reachable state.                             *)
THEOREM RuntimeIsSound == RuntimeSpec => []BackpressureInvariant
<1>1. BackpressureInvariant /\ [RuntimeNext]_runtime => BackpressureInvariant'
    BY StepIsSound DEF BackpressureInvariant
<1> QED BY <1>1, InitIsSound, PTL DEF RuntimeSpec

(* Neither queue ever exceeds its advertised limit.                           *)
THEOREM LimitsHold == RuntimeSpec => []WithinLimits
<1>1. BackpressureInvariant => WithinLimits
    BY DEF BackpressureInvariant, Sound, WithinLimits
<1> QED BY <1>1, RuntimeIsSound, PTL

(* No item is pending twice, or pending and in flight.                        *)
THEOREM OwnershipHolds == RuntimeSpec => []OwnedOnce
<1>1. BackpressureInvariant => OwnedOnce
    BY DEF BackpressureInvariant, Sound, Distinct, OwnedOnce
<1> QED BY <1>1, RuntimeIsSound, PTL

(* A closed runtime stays closed and accepts nothing.                         *)
THEOREM ClosedForGood == RuntimeSpec => ClosedIsTerminal
<1> DEFINE Kept == runtime.state = "closed" =>
                      runtime'.state = "closed" /\ Owned(runtime)' \subseteq Owned(runtime)
<1>1. BackpressureInvariant /\ [RuntimeNext]_runtime => [Kept]_runtime
    BY StepIsSound DEF BackpressureInvariant, GivesUpOneItem, Owned, IsPending
<1> QED BY <1>1, RuntimeIsSound, PTL DEF RuntimeSpec, ClosedIsTerminal

(* No step gives up more than one item, and no admission, rejection, pause,   *)
(* resume or close gives up any.                                             *)
THEOREM NothingIsDropped == RuntimeSpec => NoSilentDrop
<1> DEFINE Kept == /\ Cardinality(Owned(runtime) \ Owned(runtime)') <= 1
                   /\ runtime'.state # runtime.state \/ runtime'.rejection # runtime.rejection
                        \/ Owned(runtime)' \ Owned(runtime) # {}
                         => Owned(runtime) \subseteq Owned(runtime)'
<1>1. BackpressureInvariant /\ [RuntimeNext]_runtime => [Kept]_runtime
    <2> SUFFICES ASSUME BackpressureInvariant, RuntimeNext PROVE Kept
        OBVIOUS
    <2>1. Owned(runtime)' = Owned(runtime')
        BY DEF Owned, IsPending
    <2>2. GivesUpOneItem
        BY StepIsSound DEF BackpressureInvariant
    <2> DEFINE gone == Owned(runtime) \ Owned(runtime')
    <2>3. Cardinality(gone) <= 1
        <3>1. CASE Owned(runtime) \subseteq Owned(runtime')
            <4>1. gone = {}
                BY <3>1
            <4> QED BY <4>1, FS_EmptySet
        <3>2. ASSUME NEW item \in Item, Owned(runtime) \ {item} \subseteq Owned(runtime')
              PROVE  Cardinality(gone) <= 1
            <4>1. gone \subseteq {item}
                BY <3>2
            <4>2. IsFiniteSet({item}) /\ Cardinality({item}) = 1
                BY FS_Singleton
            <4>3. IsFiniteSet(gone) /\ Cardinality(gone) <= Cardinality({item})
                BY <4>1, <4>2, FS_Subset
            <4> QED BY <4>2, <4>3
        <3> QED BY <2>2, <3>1, <3>2 DEF GivesUpOneItem
    <2>4. runtime'.state # runtime.state \/ runtime'.rejection # runtime.rejection
             \/ Owned(runtime') \ Owned(runtime) # {}
              => Owned(runtime) \subseteq Owned(runtime')
        BY <2>2 DEF GivesUpOneItem
    <2> QED BY <2>1, <2>3, <2>4
<1> QED BY <1>1, RuntimeIsSound, PTL DEF RuntimeSpec, NoSilentDrop
=============================================================================
